---- MODULE Spec2Model ----
(***************************************************************************)
(* GraphService (cacheNode$, setFilter$, reset$, uncache$) driving a       *)
(* LocalGraph, with the rxjs 5 operators the two classes are built from    *)
(* (publish/publishReplay + refCount, first, mergeMap, do, finally,        *)
(* expand, last) unfolded into the synchronous steps they perform.         *)
(*                                                                         *)
(* The program state is threaded through the operators as one record `s`   *)
(* whose fields are the variables below; an action applies the operator    *)
(* of a whole handler to the current state and installs the result.        *)
(***************************************************************************)
EXTENDS Integers, Sequences, FiniteSets, TLC

VARIABLES
    dataState,                      \* data$ of LocalGraph: "pending", "loaded" or "failed"
    dataConnected,                  \* data$ (publish().refCount()) holds a connection
    xhrInFlight,                    \* database fetch pipelines (_getDatabase$) in flight
    _loaded,                        \* LocalGraph._loaded
    _nodes,                         \* LocalGraph._nodes: key -> Node
    _sequences,                     \* LocalGraph._sequences: skey -> ordered keys
    _nodeIndex,                     \* LocalGraph._nodeIndex: set of index items
    _cachedNodes,                   \* LocalGraph._cachedNodes (its keys)
    _cachedSpatialEdges,            \* LocalGraph._cachedSpatialEdges (its keys)
    _filter,                        \* the expression LocalGraph._filter was compiled from
    cachingAssets,                  \* keys whose node has an asset fetch in flight
    assetFetches,                   \* key -> asset fetches in flight
    _firstGraphSubjects,            \* GraphService._firstGraphSubjects$ (request ids)
    _initializeCacheSubscriptions,  \* GraphService._initializeCacheSubscriptions
    _sequenceSubscriptions,         \* GraphService._sequenceSubscriptions
    _spatialSubscriptions,          \* GraphService._spatialSubscriptions
    requests,                       \* one record per cacheNode$ call, in call order
    filterHandles,                  \* filters whose setFilter$ observable was returned
    resetUpTo,                      \* the requests made before the latest reset$ call
    resetKeepKeys,                  \* the keepKeys of the latest reset$ call
    filterUpTo,                     \* the requests made before the latest setFilter$ call
    spatialFilter,                  \* key -> the filter its stored spatial edges were computed with
    graphCall,                      \* the latest call made on the graph directly, its outcome
    filterRun,                      \* a filter expression, a node and what the predicate returned
    spatial,                        \* a graph that loads tiles, and the spatial pipelines on it
    sequenceRequests,               \* one record per subscribed cacheSequence$ observable
    component,                      \* the SpatialDataComponent: its subscriptions, its callbacks
    fly                             \* the FlyHandler, the navigator state and the mouse input

vars == <<dataState, dataConnected, xhrInFlight, _loaded, _nodes, _sequences, _nodeIndex,
          _cachedNodes, _cachedSpatialEdges, _filter, cachingAssets, assetFetches,
          _firstGraphSubjects, _initializeCacheSubscriptions, _sequenceSubscriptions,
          _spatialSubscriptions, requests, filterHandles, resetUpTo, resetKeepKeys, filterUpTo,
          spatialFilter, graphCall, filterRun, spatial, sequenceRequests,
          component, fly>>

(***************************************************************************)
(* Bounds and inputs.                                                      *)
(***************************************************************************)
\* cacheNode$ calls per run
MaxRequests == 2

\* activations of the SpatialDataComponent per run, and callbacks of it logged
MaxActivations == 2
MaxCallbacks == 3

\* mouse events per run
MaxInputs == 3

\* cacheSequence$ observables subscribed per run
MaxSequenceRequests == 4

\* /data/metadata_database.json: key -> metadata (positions in metres on a grid)
metadataDatabase ==
    [A |-> [key |-> "A", skey |-> "s1", lat |-> 0, lon |-> 0],
     B |-> [key |-> "B", skey |-> "s1", lat |-> 0, lon |-> 10],
     C |-> [key |-> "C", skey |-> "s1", lat |-> 0, lon |-> 100],
     M |-> [key |-> "M", skey |-> "s2", lat |-> 5, lon |-> 5]]

\* /data/sequence_database.json: the sequence "s2" of node M is not in it, and "s1"
\* names a key "Z" that is not in the metadata
sequenceDatabase == [s1 |-> <<"A", "B", "C", "Z">>]

\* keys cacheNode$ is called with: X is not in the metadata database
RequestKeys == {"A", "M", "X"}

\* keys cacheSequence$ is called with: s2 is not in the sequence database
SequenceRequestKeys == {"s1", "s2"}

\* keepKeys arguments of reset$
KeepSets == {{"A"}}

\* filter expressions: a property path is written as its segments
NoFilter == <<>>
SequenceFilter == <<"==", <<"sequenceKey">>, [t |-> "string", v |-> "s1"]>>
Filters == {NoFilter, SequenceFilter}

\* half side of the box searched around a node, in metres
boundingBoxThreshold == 20

\* the tiles that cover the neighbourhood of the node of the spatial pipelines
Tiles == {"t1", "t2"}

\* cacheNode$ calls per run of the spatial pipelines
MaxSpatialRequests == 2

(***************************************************************************)
(* SpatialDataComponent: the four subscription fields ("undefined", "open" *)
(* or "closed"), the reset subscriptions of earlier activations that are   *)
(* still open, the error the latest _deactivate threw, and the callbacks   *)
(* that ran, each with whether the component was activated.                *)
(***************************************************************************)
NewComponent ==
    [activated |-> FALSE, activations |-> 0,
     _renderSubscription |-> "undefined", _graphChangeSubscription |-> "undefined",
     _currentNodeSubscription |-> "undefined", _resetSubscription |-> "undefined",
     orphans |-> 0, thrown |-> "", callbacks |-> <<>>]

\* _activate(): reference$, nodes$ and currentState$ are subscribed; the subscription
\* to currentNode$ is commented out
_activate(c) ==
    [c EXCEPT !.activated = TRUE, !.activations = @ + 1, !.thrown = "",
              !.orphans = IF c._resetSubscription = "open" THEN @ + 1 ELSE @,
              !._resetSubscription = "open",
              !._graphChangeSubscription = "open",
              !._renderSubscription = "open"]

\* field.unsubscribe() on each field in turn: a field that was never assigned throws
\* and ends the method
RECURSIVE UnsubscribeFields(_, _)
UnsubscribeFields(c, fields) ==
    IF fields = <<>> THEN c
    ELSE IF c[Head(fields)] = "undefined" THEN [c EXCEPT !.thrown = "TypeError"]
    ELSE UnsubscribeFields([c EXCEPT ![Head(fields)] = "closed"], Tail(fields))

\* _deactivate()
_deactivate(c) ==
    UnsubscribeFields([c EXCEPT !.activated = FALSE],
                      <<"_renderSubscription", "_graphChangeSubscription",
                        "_currentNodeSubscription", "_resetSubscription">>)

\* a callback of the component runs
Callback(c, name) == [c EXCEPT !.callbacks = Append(@, [name |-> name, activated |-> c.activated])]

(***************************************************************************)
(* FlyHandler.                                                             *)
(*   enabled   _enable has run and _disable has not                        *)
(*   state     the latest state of the navigator                           *)
(*   flying    the latest value of flying$ in the two switchMaps:          *)
(*             "unknown" before the first, else "true" or "false"          *)
(*   camera    renderCamera$ has given withLatestFrom a value              *)
(*   previous  the event pairwise holds (an index of inputs), 0 for none   *)
(*   inputs    the mouse events so far, each with the navigator state and  *)
(*             whether the handler was enabled when it arrived             *)
(*   applied   the calls made on the state service, each with the indices  *)
(*             of the events it was computed from                          *)
(***************************************************************************)
NavigatorStates == {"Traversing", "Flying"}

\* drag start, drag (plain, with shift, with ctrl or meta), drag end, wheel
MouseEvents ==
    {[kind |-> "mouseDragStart", key |-> ""], [kind |-> "mouseDrag", key |-> ""],
     [kind |-> "mouseDrag", key |-> "shift"], [kind |-> "mouseDrag", key |-> "ctrl"],
     [kind |-> "mouseDragEnd", key |-> ""], [kind |-> "mouseWheel", key |-> ""]}

NewFlyHandler ==
    [enabled |-> FALSE, state |-> "Traversing", flying |-> "unknown", camera |-> FALSE,
     previous |-> 0, inputs |-> <<>>, applied |-> <<>>]

\* a switchMap that keeps the inner subscription when flying$ emits false
flyingNextKeep(f, flying) ==
    IF flying THEN [f EXCEPT !.flying = "true", !.previous = 0] ELSE f

\* flying$ emits: both switchMaps leave their inner observable; mouseDrag$ is
\* subscribed anew when flying, and pairwise starts without a previous event
flyingNext(f, flying) ==
    [f EXCEPT !.flying = IF flying THEN "true" ELSE "false", !.previous = 0]

\* _enable(): replay is whether state$ emits its latest state on subscription, camera
\* whether renderCamera$ does
_enable(f, replay, camera) ==
    LET f1 == [f EXCEPT !.enabled = TRUE, !.flying = "unknown", !.previous = 0,
                        !.camera = camera]
    IN  IF replay THEN flyingNext(f1, f1.state = "Flying") ELSE f1

\* _disable()
_disable(f) == [f EXCEPT !.enabled = FALSE, !.flying = "unknown", !.previous = 0]

\* state$ emits
stateNext(f, state) ==
    LET f1 == [f EXCEPT !.state = state]
    IN  IF f.enabled THEN flyingNext(f1, state = "Flying") ELSE f1

\* _processFlyMovement(events, camera)
_processFlyMovement(f, first, second) ==
    LET event == f.inputs[second]
        call == IF event.key = "shift" THEN "truck"
                ELSE IF event.key = "ctrl" THEN "orbit"
                ELSE "rotate"
    IN  [f EXCEPT !.applied = Append(@, [call |-> call, first |-> first, second |-> second])]

\* a merge without mouseDragEnd$: a drag end leaves the previous event in place
mouseDragNextNoEnd(f, i) ==
    IF f.inputs[i].kind = "mouseDragEnd" THEN f
    ELSE LET f1 == [f EXCEPT !.previous = i]
         IN  IF f.previous = 0 \/ ~f.camera THEN f1
             ELSE _processFlyMovement(f1, f.previous, i)

\* mouseDrag$ emits input i (a drag end as null): pairwise, filter, withLatestFrom
mouseDragNext(f, i) ==
    LET f1 == [f EXCEPT !.previous = i]
        isNull(j) == f.inputs[j].kind = "mouseDragEnd"
    IN  IF f.previous = 0 \/ isNull(f.previous) \/ isNull(i) \/ ~f.camera THEN f1
        ELSE _processFlyMovement(f1, f.previous, i)

\* the subscriber of _flyMouseWheelSubscription
mouseWheelNext(f, i) ==
    [f EXCEPT !.applied = Append(@, [call |-> "dolly", first |-> i, second |-> i])]

\* the mouse service emits an event
mouseNext(f, event) ==
    LET i == Len(f.inputs) + 1
        f1 == [f EXCEPT !.inputs = Append(@, [kind |-> event.kind, key |-> event.key,
                                              state |-> f.state, enabled |-> f.enabled])]
    IN  IF f.flying # "true" THEN f1
        ELSE IF event.kind = "mouseWheel" THEN mouseWheelNext(f1, i)
        ELSE mouseDragNext(f1, i)

(***************************************************************************)
(* The state record and small helpers.                                     *)
(***************************************************************************)
Cur ==
    [dataState |-> dataState, dataConnected |-> dataConnected, xhrInFlight |-> xhrInFlight,
     _loaded |-> _loaded, _nodes |-> _nodes, _sequences |-> _sequences,
     _nodeIndex |-> _nodeIndex, _cachedNodes |-> _cachedNodes,
     _cachedSpatialEdges |-> _cachedSpatialEdges, _filter |-> _filter,
     cachingAssets |-> cachingAssets, assetFetches |-> assetFetches,
     _firstGraphSubjects |-> _firstGraphSubjects,
     _initializeCacheSubscriptions |-> _initializeCacheSubscriptions,
     _sequenceSubscriptions |-> _sequenceSubscriptions,
     _spatialSubscriptions |-> _spatialSubscriptions,
     requests |-> requests, filterHandles |-> filterHandles,
     resetUpTo |-> resetUpTo, resetKeepKeys |-> resetKeepKeys, filterUpTo |-> filterUpTo,
     spatialFilter |-> spatialFilter, graphCall |-> graphCall, filterRun |-> filterRun,
     spatial |-> spatial, sequenceRequests |-> sequenceRequests, component |-> component,
     fly |-> fly]

Install(s) ==
    /\ dataState' = s.dataState
    /\ dataConnected' = s.dataConnected
    /\ xhrInFlight' = s.xhrInFlight
    /\ _loaded' = s._loaded
    /\ _nodes' = s._nodes
    /\ _sequences' = s._sequences
    /\ _nodeIndex' = s._nodeIndex
    /\ _cachedNodes' = s._cachedNodes
    /\ _cachedSpatialEdges' = s._cachedSpatialEdges
    /\ _filter' = s._filter
    /\ cachingAssets' = s.cachingAssets
    /\ assetFetches' = s.assetFetches
    /\ _firstGraphSubjects' = s._firstGraphSubjects
    /\ _initializeCacheSubscriptions' = s._initializeCacheSubscriptions
    /\ _sequenceSubscriptions' = s._sequenceSubscriptions
    /\ _spatialSubscriptions' = s._spatialSubscriptions
    /\ requests' = s.requests
    /\ filterHandles' = s.filterHandles
    /\ resetUpTo' = s.resetUpTo
    /\ resetKeepKeys' = s.resetKeepKeys
    /\ filterUpTo' = s.filterUpTo
    /\ spatialFilter' = s.spatialFilter
    /\ graphCall' = s.graphCall
    /\ filterRun' = s.filterRun
    /\ spatial' = s.spatial
    /\ sequenceRequests' = s.sequenceRequests
    /\ component' = s.component
    /\ fly' = s.fly

\* the result of a call that may throw: the state it leaves and the error ("" for none)
Ok(s) == [s |-> s, err |-> ""]
Throw(s, e) == [s |-> s, err |-> e]

Range(q) == {q[i] : i \in 1..Len(q)}

\* Array.indexOf + splice of GraphService._removeFromArray: the first occurrence goes
RECURSIVE _removeFromArray(_, _)
_removeFromArray(object, objects) ==
    IF objects = <<>> THEN <<>>
    ELSE IF Head(objects) = object THEN Tail(objects)
    ELSE <<Head(objects)>> \o _removeFromArray(object, Tail(objects))

\* one entry of the per-request event log
Log(s, r, e) == [s EXCEPT !.requests[r].events = Append(@, e)]

Occurs(q, e) == \E i \in 1..Len(q) : q[i] = e

\* the position of the first e in q, Len(q) + 1 when there is none
FirstIndex(q, e) ==
    IF Occurs(q, e) THEN CHOOSE i \in 1..Len(q) : q[i] = e /\ \A j \in 1..(i - 1) : q[j] # e
    ELSE Len(q) + 1

(***************************************************************************)
(* FilterCreator: the predicate of a filter expression, applied to a node. *)
(* A JS value is [t |-> typeof, v |-> value]; an object's v maps its       *)
(* property names to values.                                               *)
(***************************************************************************)
Undefined == [t |-> "undefined", v |-> "undefined"]

Null == [t |-> "null", v |-> "null"]

\* the value of an expression whose evaluation threw a TypeError
Raised == [t |-> "TypeError", v |-> "TypeError"]

\* typeof
TypeOf(val) == IF val.t \in {"null", "array"} THEN "object" ELSE val.t

\* the outcome of evaluating a compiled predicate: "true", "false" or "TypeError"
Bool(b) == IF b THEN "true" ELSE "false"

\* left && right: right is evaluated only when left is true
And(left, right) == IF left = "true" THEN right ELSE left

HasProperty(val, p) == val.t = "object" /\ p \in DOMAIN val.v

\* val[p]: a TypeError on undefined and null, undefined on a primitive or an array
GetProperty(val, p) ==
    IF val.t \in {"undefined", "null", "TypeError"} THEN Raised
    ELSE IF HasProperty(val, p) THEN val.v[p]
    ELSE Undefined

\* p in val: a TypeError unless val is an object
InOperator(p, val) ==
    IF val.t \in {"object", "array"} THEN Bool(HasProperty(val, p)) ELSE "TypeError"

LooseEquals(a, b) ==
    LET number(val) == CASE val.t = "number" -> val.v
                         [] val.t = "boolean" -> IF val.v THEN 1 ELSE 0
                         [] val.v = "0" -> 0
                         [] val.v = "1" -> 1
                         [] OTHER -> -1
    IN  IF a.t = b.t THEN a.v = b.v
        ELSE /\ {a.t, b.t} \subseteq {"number", "string", "boolean"}
             /\ number(a) = number(b)

\* a === b where b is a literal: an object or array literal is identical to nothing
StrictEquals(a, b) ==
    /\ a.t = b.t
    /\ a.t \in {"number", "string", "boolean", "undefined", "null"}
    /\ a.v = b.v

\* the strings of the inputs in code unit order
StringsInOrder == <<"1", "A", "B", "C", "M", "X", "Z", "s1", "s2", "s3", "x">>

\* the number a value of one of the three ordered types is compared by
OrderKey(val) ==
    CASE val.t = "number" -> val.v
      [] val.t = "boolean" -> IF val.v THEN 1 ELSE 0
      [] val.t = "string" -> CHOOSE i \in 1..Len(StringsInOrder) : StringsInOrder[i] = val.v
      [] OTHER -> 0

\* FilterCreator._createPropertyTree: a dotted property is written as its segments
_createPropertyTree(property) == property

\* node[tree[1]][tree[2]]...
RECURSIVE _compilePropertyReference(_, _)
_compilePropertyReference(val, tree) ==
    IF tree = <<>> THEN val
    ELSE _compilePropertyReference(GetProperty(val, Head(tree)), Tail(tree))

\* tree[1] in node && tree[2] in node[tree[1]] && ... for the first n segments
RECURSIVE ExistsUpTo(_, _, _)
ExistsUpTo(val, tree, n) ==
    IF n = 0 THEN "true"
    ELSE And(ExistsUpTo(val, tree, n - 1),
             InOperator(tree[n], _compilePropertyReference(val, SubSeq(tree, 1, n - 1))))

\* every segment but the last is "in" the object reached so far
_compilePropertyExistsOp(val, tree) == ExistsUpTo(val, tree, Len(tree) - 1)

_compileWithExists(tree, op, val) == And(_compilePropertyExistsOp(val, tree), op)

_compileNegationDropped(expression) == expression

\* !(expression)
_compileNegation(expression) ==
    IF expression = "true" THEN "false"
    ELSE IF expression = "false" THEN "true"
    ELSE expression

\* left operator right; the ordering operators are reached with operands of one type
\* (number, string or boolean: the types of the constants of the inputs)
ApplyOperator(operator, left, right) ==
    CASE operator = "===" -> Bool(StrictEquals(left, right))
      [] operator = "!==" -> Bool(~StrictEquals(left, right))
      [] OTHER ->
            IF left.t \notin {"number", "string", "boolean"} \/ left.t # right.t THEN "false"
            ELSE CASE operator = "<" -> Bool(OrderKey(left) < OrderKey(right))
                   [] operator = "<=" -> Bool(OrderKey(left) <= OrderKey(right))
                   [] operator = ">" -> Bool(OrderKey(left) > OrderKey(right))
                   [] OTHER -> Bool(OrderKey(left) >= OrderKey(right))

_compileComparisonOpTyped(operator, property, value, checkType, val) ==
    LET tree == _createPropertyTree(property)
        left == _compilePropertyReference(val, tree)
        op == IF left.t = "TypeError" THEN "TypeError"
              ELSE IF TypeOf(left) # TypeOf(value) THEN "false"
              ELSE ApplyOperator(operator, left, value)
    IN  _compileWithExists(tree, op, val)

_compileComparisonOp(operator, property, value, checkType, val) ==
    LET tree == _createPropertyTree(property)
        left == _compilePropertyReference(val, tree)
        op == IF left.t = "TypeError" THEN "TypeError"
              ELSE IF checkType /\ TypeOf(left) # TypeOf(value) THEN "false"
              ELSE ApplyOperator(operator, left, value)
    IN  _compileWithExists(tree, op, val)

\* FilterCreator._compare, for two values of one of the ordered types; values of
\* different types and arrays are in the inputs only as single members of a list
_compare(a, b) ==
    IF a.t # b.t \/ a.t \notin {"number", "string", "boolean"} THEN 0
    ELSE IF OrderKey(a) < OrderKey(b) THEN -1
    ELSE IF OrderKey(a) > OrderKey(b) THEN 1
    ELSE 0

\* values.sort(compare): each value is put behind the values that are not greater
RECURSIVE Sort(_)
Sort(values) ==
    IF values = <<>> THEN <<>>
    ELSE LET rest == Sort(SubSeq(values, 1, Len(values) - 1))
             last == values[Len(values)]
             n == Cardinality({i \in 1..Len(rest) :
                                  \A j \in 1..i : _compare(rest[j], last) <= 0})
         IN  SubSeq(rest, 1, n) \o <<last>> \o SubSeq(rest, n + 1, Len(rest))

_compileInOpFirst(property, values, val) ==
    LET left == Sort(values)
        tree == _createPropertyTree(property)
        right == _compilePropertyReference(val, tree)
        op == IF right.t = "TypeError" THEN "TypeError"
              ELSE Bool(left # <<>> /\ StrictEquals(right, left[1]))
    IN  _compileWithExists(tree, op, val)

\* [values].indexOf(node[...]) !== -1: indexOf compares with ===
_compileInOp(property, values, val) ==
    LET left == Sort(values)
        tree == _createPropertyTree(property)
        right == _compilePropertyReference(val, tree)
        op == IF right.t = "TypeError" THEN "TypeError"
              ELSE Bool(\E i \in 1..Len(left) : StrictEquals(right, left[i]))
    IN  _compileWithExists(tree, op, val)

\* the expressions null and undefined, written as sequences like every expression
NullExpression == <<"null">>

UndefinedExpression == <<"undefined">>

RECURSIVE _compile(_, _)
RECURSIVE _compileLogicalOp(_, _)
_compileLogicalOpFirst(filters, val) == _compile(Head(filters), val)

\* the compiled sub-filters joined with &&
_compileLogicalOp(filters, val) ==
    IF Len(filters) = 1 THEN _compile(filters[1], val)
    ELSE And(_compile(Head(filters), val), _compileLogicalOp(Tail(filters), val))

_compile(filter, val) ==
    IF filter \in {NullExpression, UndefinedExpression} \/ Len(filter) <= 1 THEN "true"
    ELSE LET operator == filter[1]
         IN  CASE operator = "==" -> _compileComparisonOp("===", filter[2], filter[3], FALSE, val)
               [] operator = "!=" -> _compileComparisonOp("!==", filter[2], filter[3], FALSE, val)
               [] operator \in {">", ">=", "<", "<="} ->
                    _compileComparisonOp(operator, filter[2], filter[3], TRUE, val)
               [] operator = "in" -> _compileInOp(filter[2], SubSeq(filter, 3, Len(filter)), val)
               [] operator = "!in" ->
                    _compileNegation(_compileInOp(filter[2], SubSeq(filter, 3, Len(filter)), val))
               [] operator = "all" -> _compileLogicalOp(Tail(filter), val)
               [] OTHER -> "true"

\* the properties of a Node a filter can read
NodeObject(node) ==
    [t |-> "object",
     v |-> [key |-> [t |-> "string", v |-> node.key],
            sequenceKey |-> [t |-> "string", v |-> node.sequenceKey],
            full |-> [t |-> "boolean", v |-> node.full],
            latLon |-> [t |-> "object",
                        v |-> [lat |-> [t |-> "number", v |-> node.lat],
                               lon |-> [t |-> "number", v |-> node.lon]]]]]

\* createFilter(filter)(node): "true", "false" or "TypeError"
createFilter(filter, node) == _compile(filter, NodeObject(node))

(***************************************************************************)
(* Node, EdgeCalculator and GraphCalculator: the parts LocalGraph and      *)
(* GraphService use.                                                       *)
(***************************************************************************)
NoEdges == [cached |-> FALSE, edges |-> {}]

NewNodeNotFull(m) ==
    [key |-> m.key, sequenceKey |-> m.skey, lat |-> m.lat, lon |-> m.lon,
     full |-> FALSE, assetsCached |-> FALSE, cache |-> 0,
     sequenceEdges |-> NoEdges, spatialEdges |-> NoEdges]

\* new Node(fullNode) followed by makeFull(fullNode)
NewFullNode(m) ==
    [key |-> m.key, sequenceKey |-> m.skey, lat |-> m.lat, lon |-> m.lon,
     full |-> TRUE, assetsCached |-> FALSE, cache |-> 0,
     sequenceEdges |-> NoEdges, spatialEdges |-> NoEdges]

\* Node.initializeCache(new NodeCache()): cache counts the caches the node was handed
NodeInitializeCache(node) == [node EXCEPT !.cache = @ + 1]

\* Node.cacheSequenceEdges(edges)
NodeCacheSequenceEdges(node, edges) ==
    [node EXCEPT !.sequenceEdges = [cached |-> TRUE, edges |-> edges]]

\* Node.cacheSpatialEdges(edges)
NodeCacheSpatialEdges(node, edges) ==
    [node EXCEPT !.spatialEdges = [cached |-> TRUE, edges |-> edges]]

\* Node.resetSpatialEdges()
NodeResetSpatialEdges(node) == [node EXCEPT !.spatialEdges = NoEdges]

\* EdgeCalculator.computeSequenceEdges(node, sequence): the neighbours of the node in
\* the ordered keys of its sequence
computeSequenceEdges(node, keys) ==
    LET at == {i \in 1..Len(keys) : keys[i] = node.key}
    IN  {[from |-> node.key, to |-> keys[i - 1], direction |-> "Prev"] : i \in {j \in at : j > 1}}
        \cup
        {[from |-> node.key, to |-> keys[i + 1], direction |-> "Next"] :
            i \in {j \in at : j < Len(keys)}}

\* GraphCalculator.boundingBoxCorners(latLon, threshold): south-west and north-east
boundingBoxCorners(lat, lon, threshold) ==
    <<[lat |-> lat - threshold, lon |-> lon - threshold],
      [lat |-> lat + threshold, lon |-> lon + threshold]>>

\* a search that returns the whole index
SearchAll(index, bbox) == index

\* rbush search: the items inside the box
Search(index, bbox) ==
    {item \in index : /\ bbox[1].lat <= item.lat /\ item.lat <= bbox[2].lat
                      /\ bbox[1].lon <= item.lon /\ item.lon <= bbox[2].lon}

\* getPotentialEdges + compute*Edges of EdgeCalculator: edges lead to candidates other
\* than the node itself
computeSpatialEdges(node, filteredKeys) ==
    {[from |-> node.key, to |-> k] : k \in filteredKeys \ {node.key}}

(***************************************************************************)
(* LocalGraph.                                                             *)
(***************************************************************************)
\* data$ = combineLatest(...).publish().refCount(): a subscription issues the database
\* fetches when there is no connection yet, and shares the connection otherwise
SubscribeDataUnshared(s) == [s EXCEPT !.xhrInFlight = @ + 1]

SubscribeData(s) ==
    IF s.dataConnected THEN s
    ELSE [s EXCEPT !.dataConnected = TRUE, !.xhrInFlight = @ + 1]

LoadDatabaseIndexLater(s) ==
    [s EXCEPT
        !._nodes = [k \in DOMAIN metadataDatabase |-> NewFullNode(metadataDatabase[k])],
        !._nodeIndex = {[lat |-> metadataDatabase[k].lat, lon |-> metadataDatabase[k].lon,
                         node |-> k] :
                           k \in {j \in DOMAIN metadataDatabase :
                                     metadataDatabase[j].skey \in DOMAIN sequenceDatabase}},
        !._sequences = sequenceDatabase,
        !._loaded = TRUE]

\* the next handler of the constructor's subscription to data$
LoadDatabase(s) ==
    [s EXCEPT
        !._nodes = [k \in DOMAIN metadataDatabase |-> NewFullNode(metadataDatabase[k])],
        !._nodeIndex = {[lat |-> metadataDatabase[k].lat, lon |-> metadataDatabase[k].lon,
                         node |-> k] : k \in DOMAIN metadataDatabase},
        !._sequences = sequenceDatabase,
        !._loaded = TRUE]

hasNode(s, key) == key \in DOMAIN s._nodes

getNode(s, key) == s._nodes[key]

hasInitializedCache(s, key) == key \in s._cachedNodes

hasNodeSequence(s, key) == getNode(s, key).sequenceKey \in DOMAIN s._sequences

hasSequence(s, sequenceKey) == sequenceKey \in DOMAIN s._sequences

\* this._sequences[sequenceKey]
getSequence(s, sequenceKey) ==
    IF sequenceKey \in DOMAIN s._sequences
    THEN [key |-> sequenceKey, keys |-> s._sequences[sequenceKey]]
    ELSE Undefined

hasSpatialArea(s, key) == s._loaded

hasTiles(s, key) == s._loaded

isCachingFill(s, key) == ~s._loaded

isCachingFull(s, key) == ~s._loaded

isCachingNodeSequence(s, key) == ~s._loaded

isCachingSequence(s, sequenceKey) == ~s._loaded

isCachingTiles(s, key) == ~s._loaded

\* the observable a cache...$ method returns: "of" is Observable.of(this)
cacheFill(s, key) == IF s._loaded THEN "of" ELSE "_loaded$"

cacheFull(s, key) == IF s._loaded THEN "of" ELSE "_loaded$"

cacheNodeSequence(s, key) == IF s._loaded THEN "of" ELSE "_loaded$"

cacheSequence(s, sequenceKey) == IF s._loaded THEN "of" ELSE "_loaded$"

cacheSpatialArea(s, key) == IF s._loaded THEN <<"of">> ELSE <<"_loaded$">>

cacheTiles(s, key) == IF s._loaded THEN <<"of">> ELSE <<"_loaded$">>

InCachedNodesNever(s, key) == FALSE

\* key in this._cachedNodes
InCachedNodes(s, key) == key \in s._cachedNodes

initializeCache(s, key) ==
    IF InCachedNodes(s, key) THEN Throw(s, "GraphMapillaryError")
    ELSE IF ~hasNode(s, key) THEN Throw(s, "TypeError")
    ELSE Ok([s EXCEPT !._nodes[key] = NodeInitializeCache(@),
                      !._cachedNodes = @ \cup {key}])

cacheSequenceEdgesPartial(s, key) ==
    IF ~hasNode(s, key) THEN Throw(s, "TypeError")
    ELSE LET node == getNode(s, key)
         IN  IF node.sequenceKey \notin DOMAIN s._sequences
             THEN Throw([s EXCEPT !._nodes[key] = NodeCacheSequenceEdges(@, {})], "TypeError")
             ELSE LET edges == computeSequenceEdges(node, s._sequences[node.sequenceKey])
                      validEdges == {edge \in edges : edge.to \in DOMAIN s._nodes}
                  IN  Ok([s EXCEPT !._nodes[key] = NodeCacheSequenceEdges(@, validEdges)])

cacheSequenceEdgesUnfiltered(s, key) ==
    IF ~hasNode(s, key) THEN Throw(s, "TypeError")
    ELSE LET node == getNode(s, key)
         IN  IF node.sequenceKey \notin DOMAIN s._sequences THEN Throw(s, "TypeError")
             ELSE LET edges == computeSequenceEdges(node, s._sequences[node.sequenceKey])
                  IN  Ok([s EXCEPT !._nodes[key] = NodeCacheSequenceEdges(@, edges)])

\* the filter on the targets applied to the previous edges only
cacheSequenceEdgesPrevFiltered(s, key) ==
    IF ~hasNode(s, key) THEN Throw(s, "TypeError")
    ELSE LET node == getNode(s, key)
         IN  IF node.sequenceKey \notin DOMAIN s._sequences THEN Throw(s, "TypeError")
             ELSE LET edges == computeSequenceEdges(node, s._sequences[node.sequenceKey])
                      validEdges == {edge \in edges : edge.direction = "Next"
                                                        \/ edge.to \in DOMAIN s._nodes}
                  IN  Ok([s EXCEPT !._nodes[key] = NodeCacheSequenceEdges(@, validEdges)])

cacheSequenceEdges(s, key) ==
    IF ~hasNode(s, key) THEN Throw(s, "TypeError")
    ELSE LET node == getNode(s, key)
         IN  IF node.sequenceKey \notin DOMAIN s._sequences THEN Throw(s, "TypeError")
             ELSE LET edges == computeSequenceEdges(node, s._sequences[node.sequenceKey])
                      validEdges == {edge \in edges : edge.to \in DOMAIN s._nodes}
                  IN  Ok([s EXCEPT !._nodes[key] = NodeCacheSequenceEdges(@, validEdges)])

InCachedSpatialEdgesNever(s, key) == FALSE

\* key in this._cachedSpatialEdges
InCachedSpatialEdges(s, key) == key \in s._cachedSpatialEdges

cacheSpatialEdges(s, key) ==
    IF InCachedSpatialEdges(s, key) THEN Throw(s, "GraphMapillaryError")
    ELSE IF ~hasNode(s, key) THEN Throw(s, "TypeError")
    ELSE LET node == getNode(s, key)
             bbox == boundingBoxCorners(node.lat, node.lon, boundingBoxThreshold)
             areaNodes == {item.node : item \in Search(s._nodeIndex, bbox)}
             passes == [k \in areaNodes |-> createFilter(s._filter, getNode(s, k))]
             filteredNodes == {k \in areaNodes : passes[k] = "true"}
             edges == computeSpatialEdges(node, filteredNodes)
         IN  IF \E k \in areaNodes : passes[k] = "TypeError" THEN Throw(s, "TypeError")
             ELSE
             Ok([s EXCEPT !._nodes[key] = NodeCacheSpatialEdges(@, edges),
                          !._cachedSpatialEdges = @ \cup {key},
                          !.spatialFilter[key] = s._filter])

resetSpatialEdgesIndexOnly(s) ==
    [s EXCEPT !._cachedSpatialEdges = {},
              !.spatialFilter = [k \in DOMAIN s.spatialFilter |-> NoFilter]]

resetSpatialEdges(s) ==
    [s EXCEPT !._nodes = [k \in DOMAIN s._nodes |->
                             IF k \in s._cachedSpatialEdges
                             THEN NodeResetSpatialEdges(s._nodes[k]) ELSE s._nodes[k]],
              !._cachedSpatialEdges = {},
              !.spatialFilter = [k \in DOMAIN s.spatialFilter |-> NoFilter]]

setFilterAndReset(s, filter) == resetSpatialEdges([s EXCEPT !._filter = filter])

setFilter(s, filter) == [s EXCEPT !._filter = filter]

reset(s, keepKeys) == s

uncache(s, keepKeys) == s

(***************************************************************************)
(* Node.cacheAssets$(): one asset fetch per node, shared while in flight.  *)
(***************************************************************************)
cacheAssets(s, key) ==
    IF key \in s.cachingAssets THEN s
    ELSE [s EXCEPT !.cachingAssets = @ \cup {key}, !.assetFetches[key] = @ + 1]

(***************************************************************************)
(* GraphService.cacheNode$: the pipelines of one request r.                *)
(*   subject  firstGraphSubject$: "open", "complete" or "error"            *)
(*   node     node$: "waiting" (for the first graph), "assets", "complete" *)
(*            or "error"; replay: node$ has buffered a node                *)
(*   caller   the returned observable: "unsubscribed", "subscribed",       *)
(*            "emitted" or "failed"                                        *)
(***************************************************************************)
NewRequest(key) ==
    [key |-> key, subject |-> "open", node |-> "waiting", error |-> "", replay |-> FALSE,
     caller |-> "unsubscribed", callerError |-> "", emitted |-> <<>>, events |-> <<>>]

\* the predicate of the first(...) the returned observable ends with
firstPredicateAny(node) == TRUE

firstPredicate(node) == node.assetsCached

\* node$ delivers the node to the returned observable
CallerNext(s, r) ==
    LET node == getNode(s, s.requests[r].key)
    IN  IF s.requests[r].caller = "subscribed" /\ firstPredicate(node)
        THEN Log([s EXCEPT !.requests[r].caller = "emitted",
                           !.requests[r].emitted =
                               Append(@, [key |-> node.key, assetsCached |-> node.assetsCached])],
                 r, "emit")
        ELSE s

CallerError(s, r, e) ==
    IF s.requests[r].caller = "subscribed"
    THEN [s EXCEPT !.requests[r].caller = "failed", !.requests[r].callerError = e]
    ELSE s

\* node$ (publishReplay(1)) emits, completes, fails
NodeNext(s, r) == CallerNext([s EXCEPT !.requests[r].replay = TRUE], r)

NodeComplete(s, r) == CallerError([s EXCEPT !.requests[r].node = "complete"], r, "EmptyError")

NodeError(s, r, e) ==
    CallerError([s EXCEPT !.requests[r].node = "error", !.requests[r].error = e], r, e)

\* firstGraph$.map(getNode).mergeMap(assetsCached ? of(node) : node.cacheAssets$())
NodePipeline(s, r) ==
    LET key == s.requests[r].key
    IN  IF ~hasNode(s, key) THEN NodeError(s, r, "TypeError")
        ELSE IF getNode(s, key).assetsCached THEN NodeComplete(NodeNext(s, r), r)
        ELSE [cacheAssets(Log(s, r, "cacheAssets$"), key) EXCEPT !.requests[r].node = "assets"]

\* the error a failing sequence pipeline hands on: none, its own handler logs it
SequenceErrorToCaller(s, r, e) == NodeError(s, r, e)

SequenceError(s, r, e) == Log(s, r, e)

\* the error handler of spatialSubscription logs the error
SpatialError(s, r, e) == Log(Log(s, r, "spatialError"), r, e)

\* sequenceSubscription: mergeMap, do, finally
SequencePipeline(s, r) ==
    LET key == s.requests[r].key
        done(x) == [x EXCEPT !._sequenceSubscriptions = _removeFromArray(r, @)]
    IN  IF ~hasNode(s, key) THEN done(SequenceError(Log(s, r, "sequenceError"), r, "TypeError"))
        ELSE
        LET source == IF isCachingNodeSequence(s, key) \/ ~hasNodeSequence(s, key)
                      THEN cacheNodeSequence(s, key) ELSE "of"
        IN  IF source # "of" THEN s
            ELSE IF getNode(s, key).sequenceEdges.cached THEN done(s)
            ELSE LET c == cacheSequenceEdges(Log(s, r, "cacheSequenceEdges"), key)
                 IN  IF c.err = "" THEN done(c.s)
                     ELSE done(SequenceError(Log(c.s, r, "sequenceError"), r, c.err))

\* spatialSubscription: expand, last, mergeMap, last, mergeMap, do, finally
SpatialPipeline(s, r) ==
    LET key == s.requests[r].key
        done(x) == [x EXCEPT !._spatialSubscriptions = _removeFromArray(r, @)]
    IN  IF ~hasTiles(s, key) \/ ~hasSpatialArea(s, key) THEN s
        ELSE IF ~hasNode(s, key) THEN done(SpatialError(s, r, "TypeError"))
        ELSE IF ~hasNodeSequence(s, key) /\ cacheNodeSequence(s, key) # "of" THEN s
        ELSE IF getNode(s, key).spatialEdges.cached THEN done(s)
        ELSE LET c == cacheSpatialEdges(Log(s, r, "cacheSpatialEdges"), key)
             IN  IF c.err = "" THEN done(c.s) ELSE done(SpatialError(c.s, r, c.err))

\* an error of the metadata stage that is not handed to firstGraphSubject$
SubjectErrorDropped(s, r, e) == s

\* firstGraphSubject$.error(e): node$ and the two edge pipelines receive the error
SubjectError(s, r, e) ==
    IF s.requests[r].subject # "open" THEN s
    ELSE LET s1 == NodeError([s EXCEPT !.requests[r].subject = "error"], r, e)
         IN  [s1 EXCEPT !._sequenceSubscriptions = _removeFromArray(r, @),
                        !._spatialSubscriptions = _removeFromArray(r, @)]

\* the finally of initializeCacheSubscription: inside the subscribe call (sync) the
\* variable is still unset and the callback returns at once
InitializeCacheFinally(s, r, sync) ==
    IF sync THEN s
    ELSE [s EXCEPT !._initializeCacheSubscriptions = _removeFromArray(r, @),
                   !._firstGraphSubjects = _removeFromArray(r, @)]

MetadataErrorSwallowed(s, r, e, sync) ==
    InitializeCacheFinally(Log(s, r, "metadataError"), r, sync)

\* the error handler of initializeCacheSubscription, then its finally
MetadataError(s, r, e, sync) ==
    InitializeCacheFinally(SubjectError(Log(s, r, "metadataError"), r, e), r, sync)

\* firstGraphSubject$.next(graph); firstGraphSubject$.complete(): node$, then the
\* sequence and the spatial pipeline if (still) subscribed
FirstGraph(s, r, sync) ==
    IF s.requests[r].subject # "open" THEN s
    ELSE
    LET s1 == NodePipeline(Log([s EXCEPT !.requests[r].subject = "complete"], r, "firstGraph"), r)
        s2 == IF sync \/ r \in Range(s1._sequenceSubscriptions)
              THEN SequencePipeline(s1, r) ELSE s1
        s3 == IF sync \/ r \in Range(s2._spatialSubscriptions)
              THEN SpatialPipeline(s2, r) ELSE s2
    IN  s3

\* the order of the do and the subscriber of initializeCacheSubscription exchanged
MetadataNextEmitFirst(s, r, sync) ==
    LET key == s.requests[r].key
        s1 == FirstGraph(Log(s, r, "metadata"), r, sync)
        i == IF hasInitializedCache(s1, key) THEN Ok(s1)
             ELSE initializeCache(Log(s1, r, "initializeCache"), key)
    IN  InitializeCacheFinally(i.s, r, sync)

\* the do of initializeCacheSubscription without its hasInitializedCache test
MetadataNextUnguarded(s, r, sync) ==
    LET key == s.requests[r].key
        i == initializeCache(Log(Log(s, r, "metadata"), r, "initializeCache"), key)
    IN  IF i.err # ""
        THEN InitializeCacheFinally(SubjectError(Log(i.s, r, "initializeCacheError"), r, i.err),
                                    r, sync)
        ELSE InitializeCacheFinally(FirstGraph(i.s, r, sync), r, sync)

\* the graph arrives in initializeCacheSubscription: do, subscriber, finally
MetadataNext(s, r, sync) ==
    LET key == s.requests[r].key
        s0 == Log(s, r, "metadata")
        i == IF hasInitializedCache(s0, key) THEN Ok(s0)
             ELSE initializeCache(Log(s0, r, "initializeCache"), key)
    IN  IF i.err # ""
        THEN InitializeCacheFinally(SubjectError(Log(i.s, r, "initializeCacheError"), r, i.err),
                                    r, sync)
        ELSE InitializeCacheFinally(FirstGraph(i.s, r, sync), r, sync)

\* the mergeMap of initializeCacheSubscription: the graph method called and the
\* observable it returned
MetadataSource(s, key) ==
    IF isCachingFull(s, key) \/ ~hasNode(s, key)
    THEN [call |-> "cacheFull$", obs |-> cacheFull(s, key)]
    ELSE IF isCachingFill(s, key) \/ ~getNode(s, key).full
    THEN [call |-> "cacheFill$", obs |-> cacheFill(s, key)]
    ELSE [call |-> "of", obs |-> "of"]

cacheNode(s, key) ==
    LET r == Len(s.requests) + 1
        s1 == [s EXCEPT !.requests = Append(@, NewRequest(key)),
                        !._firstGraphSubjects = Append(@, r)]
        source == MetadataSource(s1, key)
        s2 == Log(s1, r, source.call)
    IN  IF source.obs = "of" THEN MetadataNext(s2, r, TRUE)
        ELSE IF s2.dataState = "failed" THEN MetadataError(s2, r, "LoadError", TRUE)
        ELSE [SubscribeData(s2) EXCEPT
                 !._initializeCacheSubscriptions = Append(@, r),
                 !._sequenceSubscriptions = Append(@, r),
                 !._spatialSubscriptions = Append(@, r)]

\* the caller subscribes to the observable cacheNode$ returned: node$ replays
SubscribeNode(s, r) ==
    LET s1 == [s EXCEPT !.requests[r].caller = "subscribed"]
        s2 == IF s1.requests[r].replay THEN CallerNext(s1, r) ELSE s1
    IN  IF s2.requests[r].node = "error" THEN CallerError(s2, r, s2.requests[r].error)
        ELSE IF s2.requests[r].node = "complete" THEN CallerError(s2, r, "EmptyError")
        ELSE s2

(***************************************************************************)
(* GraphService.cacheSequence$: one record per subscription to the         *)
(* observable it returns.                                                  *)
(*   state   "waiting" (for the database), "complete" or "failed"          *)
(*   items   what the observable has emitted                               *)
(*   calls   the graph methods the mergeMap called                         *)
(***************************************************************************)
NewSequenceRequest(sequenceKey) ==
    [key |-> sequenceKey, state |-> "waiting", items |-> <<>>, error |-> "", calls |-> <<>>,
     cached |-> FALSE, fetches |-> 0]

\* the graph arrives from the mergeMap: map(getSequence), then the completion
SequenceNext(s, r) ==
    [s EXCEPT !.sequenceRequests[r].items = Append(@, getSequence(s, s.sequenceRequests[r].key)),
              !.sequenceRequests[r].state = "complete"]

SequenceFetchError(s, r, e) ==
    [s EXCEPT !.sequenceRequests[r].state = "failed", !.sequenceRequests[r].error = e]

\* the subscription to the observable cacheSequence$(sequenceKey) returned
cacheSequenceCall(s, sequenceKey) ==
    LET r == Len(s.sequenceRequests) + 1
        fetch == isCachingSequence(s, sequenceKey) \/ ~hasSequence(s, sequenceKey)
        s1 == [s EXCEPT !.sequenceRequests =
                  Append(@, [NewSequenceRequest(sequenceKey) EXCEPT
                                !.cached = hasSequence(s, sequenceKey),
                                !.calls = IF fetch THEN <<"cacheSequence$">> ELSE <<>>])]
        source == IF fetch THEN cacheSequence(s, sequenceKey) ELSE "of"
    IN  IF source = "of" THEN SequenceNext(s1, r)
        ELSE IF s1.dataState = "failed" THEN SequenceFetchError(s1, r, "LoadError")
        ELSE LET s2 == SubscribeData(s1)
             IN  [s2 EXCEPT !.sequenceRequests[r].fetches = s2.xhrInFlight - s.xhrInFlight]

\* the cacheSequence$ subscriptions that wait for _loaded$, in subscription order
SequenceWaiters(s) ==
    SelectSeq([i \in 1..Len(s.sequenceRequests) |-> i],
              LAMBDA r : s.sequenceRequests[r].state = "waiting")

RECURSIVE SequenceEmitLoaded(_, _)
SequenceEmitLoaded(s, subscribers) ==
    IF subscribers = <<>> THEN s
    ELSE SequenceEmitLoaded(SequenceNext(s, Head(subscribers)), Tail(subscribers))

RECURSIVE SequenceErrorLoaded(_, _)
SequenceErrorLoaded(s, subscribers) ==
    IF subscribers = <<>> THEN s
    ELSE SequenceErrorLoaded(SequenceFetchError(s, Head(subscribers), "LoadError"),
                             Tail(subscribers))

(***************************************************************************)
(* Completion of the fetches: the database load and the asset fetches.     *)
(***************************************************************************)
RECURSIVE EmitLoaded(_, _)
\* _loaded$ emits the graph to its subscribers in subscription order
EmitLoaded(s, subscribers) ==
    IF subscribers = <<>> THEN s
    ELSE EmitLoaded(MetadataNext(s, Head(subscribers), FALSE), Tail(subscribers))

RECURSIVE ErrorLoaded(_, _)
\* _loaded$ fails
ErrorLoaded(s, subscribers) ==
    IF subscribers = <<>> THEN s
    ELSE ErrorLoaded(MetadataError(s, Head(subscribers), "LoadError", FALSE), Tail(subscribers))

dataNext(s) ==
    LET s1 == LoadDatabase([s EXCEPT !.dataState = "loaded", !.xhrInFlight = 0])
        s2 == EmitLoaded(s1, s1._initializeCacheSubscriptions)
    IN  SequenceEmitLoaded(s2, SequenceWaiters(s2))

dataError(s) ==
    LET s1 == [s EXCEPT !.dataState = "failed", !.xhrInFlight = 0]
        s2 == ErrorLoaded(s1, s1._initializeCacheSubscriptions)
    IN  SequenceErrorLoaded(s2, SequenceWaiters(s2))

\* the requests whose node$ is subscribed to the asset fetch of key
AssetWaiters(s, key) ==
    SelectSeq([i \in 1..Len(s.requests) |-> i],
              LAMBDA r : s.requests[r].key = key /\ s.requests[r].node = "assets")

RECURSIVE AssetsNext(_, _, _)
AssetsNext(s, waiters, complete) ==
    IF waiters = <<>> THEN s
    ELSE LET r == Head(waiters)
             s1 == NodeNext(s, r)
         IN  AssetsNext(IF complete THEN NodeComplete(s1, r) ELSE s1, Tail(waiters), complete)

RECURSIVE AssetsError(_, _)
AssetsError(s, waiters) ==
    IF waiters = <<>> THEN s
    ELSE AssetsError(NodeError(s, Head(waiters), "AssetError"), Tail(waiters))

\* cacheAssets$ emits the node while its assets are still loading
assetsProgress(s, key) == AssetsNext(s, AssetWaiters(s, key), FALSE)

\* the assets are there: the node is emitted with assetsCached set
assetsLoaded(s, key) ==
    AssetsNext([s EXCEPT !._nodes[key].assetsCached = TRUE,
                         !.cachingAssets = @ \ {key},
                         !.assetFetches[key] = 0],
               AssetWaiters(s, key), TRUE)

assetsFailed(s, key) ==
    AssetsError([s EXCEPT !.cachingAssets = @ \ {key}, !.assetFetches[key] = 0],
                AssetWaiters(s, key))

(***************************************************************************)
(* GraphService.setFilter$, reset$, uncache$.                              *)
(***************************************************************************)
RECURSIVE _abortSubjects(_, _)
_abortSubjects(s, subjects) ==
    IF subjects = <<>> THEN s
    ELSE LET r == Head(subjects)
             s1 == [s EXCEPT !._firstGraphSubjects = _removeFromArray(r, @)]
         IN  _abortSubjects(SubjectError(s1, r, "Aborted"), Tail(subjects))

\* unsubscribe() of a subscription of request r kept in the list named `list`: the
\* finally callback of that pipeline runs
Unsubscribe(s, list, r) ==
    IF list = "_initializeCacheSubscriptions" THEN InitializeCacheFinally(s, r, FALSE)
    ELSE [s EXCEPT ![list] = _removeFromArray(r, @)]

RECURSIVE _resetSubscriptions(_, _, _)
_resetSubscriptions(s, list, subscriptions) ==
    IF subscriptions = <<>> THEN s
    ELSE LET r == Head(subscriptions)
             s1 == [s EXCEPT ![list] = _removeFromArray(r, @)]
         IN  _resetSubscriptions(Unsubscribe(s1, list, r), list, Tail(subscriptions))

setFilterCallAll(s, filter) ==
    LET s1 == _resetSubscriptions(s, "_spatialSubscriptions", s._spatialSubscriptions)
        s2 == _resetSubscriptions(s1, "_sequenceSubscriptions", s1._sequenceSubscriptions)
    IN  [s2 EXCEPT !.filterHandles = @ \cup {filter}, !.filterUpTo = Len(s.requests)]

\* a setFilter$ that leaves the spatial pipelines running
setFilterCallKeep(s, filter) ==
    [s EXCEPT !.filterHandles = @ \cup {filter}, !.filterUpTo = Len(s.requests)]

\* setFilter$(filter), up to the return of the observable
setFilterCall(s, filter) ==
    LET s1 == _resetSubscriptions(s, "_spatialSubscriptions", s._spatialSubscriptions)
    IN  [s1 EXCEPT !.filterHandles = @ \cup {filter}, !.filterUpTo = Len(s.requests)]

setFilterDoNoReset(s, filter) == setFilter(s, filter)

\* the do of the observable setFilter$ returned, run when it is subscribed
setFilterDo(s, filter) == setFilter(resetSpatialEdges(s), filter)

resetCallSubjectsOnly(s, keepKeys) ==
    LET s1 == _abortSubjects(s, s._firstGraphSubjects)
    IN  reset([s1 EXCEPT !.resetUpTo = Len(s.requests), !.resetKeepKeys = keepKeys], keepKeys)

\* reset$(keepKeys) and the do of the observable it returns
resetCall(s, keepKeys) ==
    LET s1 == _abortSubjects(s, s._firstGraphSubjects)
        s2 == _resetSubscriptions(s1, "_initializeCacheSubscriptions",
                                  s1._initializeCacheSubscriptions)
        s3 == _resetSubscriptions(s2, "_sequenceSubscriptions", s2._sequenceSubscriptions)
        s4 == _resetSubscriptions(s3, "_spatialSubscriptions", s3._spatialSubscriptions)
    IN  reset([s4 EXCEPT !.resetUpTo = Len(s.requests), !.resetKeepKeys = keepKeys], keepKeys)

\* uncache$(keepKeys) and the do of the observable it returns
uncacheCall(s, keepKeys) == uncache(s, keepKeys)

(***************************************************************************)
(* The state machine.                                                      *)
(***************************************************************************)
\* the state after new LocalGraph() and new GraphService(graph, imageLoadingService)
Constructed ==
    SubscribeData(
        [dataState |-> "pending", dataConnected |-> FALSE, xhrInFlight |-> 0,
         _loaded |-> FALSE, _nodes |-> <<>>, _sequences |-> <<>>, _nodeIndex |-> {},
         _cachedNodes |-> {}, _cachedSpatialEdges |-> {}, _filter |-> NoFilter,
         cachingAssets |-> {},
         assetFetches |-> [k \in DOMAIN metadataDatabase |-> 0],
         _firstGraphSubjects |-> <<>>, _initializeCacheSubscriptions |-> <<>>,
         _sequenceSubscriptions |-> <<>>, _spatialSubscriptions |-> <<>>,
         requests |-> <<>>, filterHandles |-> {}, resetUpTo |-> 0, resetKeepKeys |-> {},
         filterUpTo |-> 0,
         spatialFilter |-> [k \in DOMAIN metadataDatabase |-> NoFilter],
         graphCall |-> [op |-> "none", key |-> "", err |-> "", before |-> FALSE],
         filterRun |-> [filter |-> NoFilter, node |-> Undefined, result |-> "idle"],
         spatial |-> [tile |-> [t \in Tiles |-> "none"], area |-> "none", sequence |-> "none",
                      edges |-> FALSE, requests |-> <<>>],
         sequenceRequests |-> <<>>,
         component |-> NewComponent,
         fly |-> NewFlyHandler])

\* the variables hold the state s
Holds(s) ==
    /\ dataState = s.dataState
    /\ dataConnected = s.dataConnected
    /\ xhrInFlight = s.xhrInFlight
    /\ _loaded = s._loaded
    /\ _nodes = s._nodes
    /\ _sequences = s._sequences
    /\ _nodeIndex = s._nodeIndex
    /\ _cachedNodes = s._cachedNodes
    /\ _cachedSpatialEdges = s._cachedSpatialEdges
    /\ _filter = s._filter
    /\ cachingAssets = s.cachingAssets
    /\ assetFetches = s.assetFetches
    /\ _firstGraphSubjects = s._firstGraphSubjects
    /\ _initializeCacheSubscriptions = s._initializeCacheSubscriptions
    /\ _sequenceSubscriptions = s._sequenceSubscriptions
    /\ _spatialSubscriptions = s._spatialSubscriptions
    /\ requests = s.requests
    /\ filterHandles = s.filterHandles
    /\ resetUpTo = s.resetUpTo
    /\ resetKeepKeys = s.resetKeepKeys
    /\ filterUpTo = s.filterUpTo
    /\ spatialFilter = s.spatialFilter
    /\ graphCall = s.graphCall
    /\ filterRun = s.filterRun
    /\ spatial = s.spatial
    /\ sequenceRequests = s.sequenceRequests
    /\ component = s.component
    /\ fly = s.fly

Init == Holds(Constructed)

CacheNode(key) ==
    /\ Len(requests) < MaxRequests
    /\ LET s == cacheNode(Cur, key)
       IN  Install(SubscribeNode(s, Len(s.requests)))

DataLoaded ==
    /\ dataState = "pending"
    /\ Install(dataNext(Cur))

DataFailed ==
    /\ dataState = "pending"
    /\ Install(dataError(Cur))

AssetsProgress(key) ==
    /\ key \in cachingAssets
    /\ Install(assetsProgress(Cur, key))

AssetsLoaded(key) ==
    /\ key \in cachingAssets
    /\ Install(assetsLoaded(Cur, key))

AssetsFailed(key) ==
    /\ key \in cachingAssets
    /\ Install(assetsFailed(Cur, key))

SetFilter(filter) ==
    /\ filter \in Filters
    /\ Install(setFilterCall(Cur, filter))

SetFilterEmits(filter) ==
    /\ filter \in filterHandles
    /\ Install(setFilterDo(Cur, filter))

Reset(keepKeys) ==
    /\ keepKeys \in KeepSets
    /\ Install(resetCall(Cur, keepKeys))

Uncache(keepKeys) ==
    /\ keepKeys \in KeepSets
    /\ Install(uncacheCall(Cur, keepKeys))

Next ==
    \/ \E key \in RequestKeys : CacheNode(key)
    \/ DataLoaded
    \/ DataFailed
    \/ \E key \in DOMAIN metadataDatabase : AssetsProgress(key)
    \/ \E key \in DOMAIN metadataDatabase : AssetsLoaded(key)
    \/ \E key \in DOMAIN metadataDatabase : AssetsFailed(key)
    \/ \E filter \in Filters : SetFilter(filter)
    \/ \E filter \in Filters : SetFilterEmits(filter)
    \/ \E keepKeys \in KeepSets : Reset(keepKeys)
    \/ \E keepKeys \in KeepSets : Uncache(keepKeys)

Spec == Init /\ [][Next]_vars

(***************************************************************************)
(* Properties of cacheNode$.                                               *)
(***************************************************************************)
Requests == 1..Len(requests)

EventsOf(r) == requests[r].events

\* e1 and e2 both occur in the log q, e1 first
Before(q, e1, e2) == Occurs(q, e1) /\ Occurs(q, e2) /\ FirstIndex(q, e1) < FirstIndex(q, e2)

\* C1: the observable cacheNode$(key) returns emits at most one item; the item is the
\* node with that key, and its assets are cached when it is emitted.
C1_EmitsNodeOnceAssetsCached ==
    \A r \in Requests :
        /\ Len(requests[r].emitted) <= 1
        /\ \A i \in 1..Len(requests[r].emitted) :
              /\ requests[r].emitted[i].key = requests[r].key
              /\ requests[r].emitted[i].assetsCached

\* a request that waited for the asset fetch and then emitted its node
C1_Witness ==
    \E r \in Requests :
        /\ Before(EventsOf(r), "cacheAssets$", "emit")
        /\ Len(requests[r].emitted) = 1

\* C2: a request whose metadata fetch failed with E fails its caller with the same E and
\* never calls initializeCache nor starts an asset fetch.
C2_MetadataFailurePropagates ==
    \A r \in Requests :
        Occurs(EventsOf(r), "metadataError") =>
            /\ requests[r].caller = "failed"
            /\ requests[r].callerError = "LoadError"
            /\ requests[r].error = "LoadError"
            /\ ~Occurs(EventsOf(r), "initializeCache")
            /\ ~Occurs(EventsOf(r), "cacheAssets$")
            /\ ~Occurs(EventsOf(r), "emit")

\* the database load failed while a request was waiting on cacheFull$
C2_Witness ==
    \E r \in Requests :
        /\ Before(EventsOf(r), "cacheFull$", "metadataError")
        /\ requests[r].callerError = "LoadError"

\* C3: within one request the metadata stage delivers the graph first, then
\* initializeCache runs unless the cache of the node is initialized already, then the
\* asset fetch is started, then the observable emits; an asset fetch is only started
\* for a node that is in the graph, full, and has an initialized cache.
C3_StageOrder ==
    \A r \in Requests :
        LET e == EventsOf(r)
            key == requests[r].key
        IN  /\ Occurs(e, "initializeCache") => Before(e, "metadata", "initializeCache")
            /\ Occurs(e, "firstGraph") =>
                  /\ Before(e, "metadata", "firstGraph")
                  /\ Occurs(e, "initializeCache") => Before(e, "initializeCache", "firstGraph")
                  /\ key \in _cachedNodes
            /\ Occurs(e, "cacheAssets$") =>
                  /\ Before(e, "firstGraph", "cacheAssets$")
                  /\ key \in DOMAIN _nodes
                  /\ _nodes[key].full
                  /\ _nodes[key].cache > 0
            /\ Occurs(e, "emit") =>
                  /\ Before(e, "firstGraph", "emit")
                  /\ Occurs(e, "cacheAssets$") => Before(e, "cacheAssets$", "emit")

\* a request that went through all four stages
C3_Witness ==
    \E r \in Requests :
        LET e == EventsOf(r)
        IN  /\ Before(e, "metadata", "initializeCache")
            /\ Before(e, "initializeCache", "cacheAssets$")
            /\ Before(e, "cacheAssets$", "emit")

\* C4: at most one load of the database and, per node, at most one asset fetch is in
\* flight, however many cacheNode$ calls wait for it.
C4_FetchesShared ==
    /\ xhrInFlight <= 1
    /\ \A k \in DOMAIN assetFetches : assetFetches[k] <= 1

\* two requests for one key waiting on the same load, and two waiting on the same
\* asset fetch
C4_Witness ==
    \E r1, r2 \in Requests :
        /\ r1 # r2
        /\ requests[r1].key = requests[r2].key
        /\ \/ /\ {r1, r2} \subseteq Range(_initializeCacheSubscriptions)
              /\ xhrInFlight = 1
           \/ /\ requests[r1].node = "assets" /\ requests[r2].node = "assets"
              /\ assetFetches[requests[r1].key] = 1

\* the calls on the graph a log records
GraphCalls(q) ==
    SelectSeq(q, LAMBDA e : e \in {"initializeCache", "cacheSequenceEdges", "cacheSpatialEdges"})

SpatialCalls(q) == SelectSeq(q, LAMBDA e : e = "cacheSpatialEdges")

\* C5: a reset$ call fails every request whose observable has neither emitted nor failed
\* yet with the abort error, whichever stage the request is in.
C5_ResetAbortsEveryPending ==
    [][\A keepKeys \in KeepSets :
          Reset(keepKeys) =>
              \A r \in Requests :
                  requests[r].caller = "subscribed" =>
                      /\ requests'[r].caller = "failed"
                      /\ requests'[r].callerError = "Aborted"]_vars

\* C6: once reset$ has been called no pipeline of an earlier request calls
\* initializeCache, cacheSequenceEdges or cacheSpatialEdges, and once setFilter$ has
\* been called no spatial pipeline of an earlier request calls cacheSpatialEdges.
C6_NoGraphCallsAfterCancel ==
    [][\A r \in Requests :
          /\ r <= resetUpTo => GraphCalls(requests'[r].events) = GraphCalls(requests[r].events)
          /\ r <= filterUpTo =>
                SpatialCalls(requests'[r].events) = SpatialCalls(requests[r].events)]_vars

\* the database arrived after a reset$ had aborted a request that waited for it
C6_Witness ==
    \E r \in Requests :
        /\ r <= resetUpTo
        /\ Occurs(EventsOf(r), "cacheFull$")
        /\ requests[r].error = "Aborted"
        /\ dataState = "loaded"

\* the requests setFilter$ leaves in flight go on: node$ has run and the sequence
\* edges of the node are cached or their computation was tried
FilterLeavesRequest(r) ==
    Occurs(EventsOf(r), "firstGraph") =>
        /\ requests[r].node # "waiting"
        /\ \/ Occurs(EventsOf(r), "cacheSequenceEdges")
           \/ _nodes[requests[r].key].sequenceEdges.cached

\* C7: a setFilter$ call empties the list of spatial pipelines and leaves the first
\* graph subjects, the metadata pipelines and the sequence pipelines as they are; the
\* requests in flight still resolve and still cache their sequence edges.
C7_SetFilterCancelsSpatialOnly ==
    /\ [][\A filter \in Filters :
             SetFilter(filter) =>
                 /\ _spatialSubscriptions' = <<>>
                 /\ UNCHANGED <<_firstGraphSubjects, _initializeCacheSubscriptions,
                                _sequenceSubscriptions>>
                 /\ \A r \in Requests :
                       /\ requests'[r].subject = requests[r].subject
                       /\ requests'[r].node = requests[r].node
                       /\ requests'[r].caller = requests[r].caller]_vars
    /\ [](\A r \in Requests : FilterLeavesRequest(r))

\* a request that waited for the database at setFilter$ and lost its spatial pipeline
\* (no request ever computed spatial edges), cached its sequence edges and emitted
C7_Witness ==
    \E r \in Requests :
        /\ r <= filterUpTo
        /\ Before(EventsOf(r), "cacheFull$", "firstGraph")
        /\ Occurs(EventsOf(r), "cacheSequenceEdges")
        /\ \A r1 \in Requests : ~Occurs(EventsOf(r1), "cacheSpatialEdges")
        /\ ~_nodes[requests[r].key].spatialEdges.cached
        /\ _nodes[requests[r].key].sequenceEdges.cached
        /\ requests[r].caller = "emitted"

\* the spatial edges the active filter gives the node
SpatialEdgesUnder(filter, key) ==
    LET node == _nodes[key]
        bbox == boundingBoxCorners(node.lat, node.lon, boundingBoxThreshold)
        areaNodes == {item.node : item \in Search(_nodeIndex, bbox)}
    IN  computeSpatialEdges(node, {k \in areaNodes : createFilter(filter, _nodes[k]) = "true"})

\* C8: the cached spatial edges of a node were computed with the active filter, and
\* when the observable of setFilter$(filter) emits no node has cached spatial edges
\* and the active filter is filter.
C8_SpatialEdgesMatchFilter ==
    /\ [](\A k \in DOMAIN _nodes :
             /\ k \in _cachedSpatialEdges <=> _nodes[k].spatialEdges.cached
             /\ _nodes[k].spatialEdges.cached =>
                   /\ spatialFilter[k] = _filter
                   /\ _nodes[k].spatialEdges.edges = SpatialEdgesUnder(_filter, k))
    /\ [][\A filter \in Filters :
             SetFilterEmits(filter) =>
                 /\ _filter' = filter
                 /\ _cachedSpatialEdges' = {}
                 /\ \A k \in DOMAIN _nodes' : ~_nodes'[k].spatialEdges.cached]_vars

\* spatial edges computed under a filter that was set after the node had spatial edges
\* under the default one: the two filters give the node different edges
C8_Witness ==
    \E k \in DOMAIN _nodes :
        /\ _nodes[k].spatialEdges.cached
        /\ _filter = SequenceFilter
        /\ SpatialEdgesUnder(NoFilter, k) # SpatialEdgesUnder(SequenceFilter, k)

C10_ResetDropsUnkeptNodes ==
    \A r \in Requests :
        LET e == EventsOf(r)
            key == requests[r].key
            fetched == Occurs(e, "cacheFull$") \/ Occurs(e, "cacheFill$")
        IN  ( /\ r > resetUpTo
              /\ \E r0 \in 1..resetUpTo : Occurs(EventsOf(r0), "firstGraph")
              /\ key \in DOMAIN metadataDatabase
              /\ \A r1 \in (resetUpTo + 1)..(r - 1) : requests[r1].key # key
              /\ requests[r].caller = "emitted" )
            => IF key \in resetKeepKeys
               THEN ~fetched
               ELSE fetched /\ Occurs(e, "initializeCache")

(***************************************************************************)
(* The graph called directly: LocalGraph's synchronous operations, each    *)
(* recorded with its outcome and whether it found spatial edges cached.    *)
(***************************************************************************)
\* keys the graph is called with: X is unknown, B lies inside sequence s1, C precedes
\* the unknown Z, the sequence of M is unknown
InitializeKeys == {"A", "X"}
SequenceKeys == {"A", "B", "C", "M", "X"}
SpatialKeys == {"A", "M", "X"}

\* a filter that reads a property of a string: its predicate throws on every node
ThrowingFilter == <<"==", <<"key", "x", "y">>, [t |-> "number", v |-> 1]>>

GraphFilters == Filters \cup {ThrowingFilter}

Called(s, op, key, err) ==
    [s EXCEPT !.graphCall = [op |-> op, key |-> key, err |-> err,
                             before |-> _cachedSpatialEdges # {}]]

InitializeCacheCall(key) ==
    /\ key \in InitializeKeys
    /\ LET c == initializeCache(Cur, key)
       IN  Install(Called(c.s, "initializeCache", key, c.err))

CacheSequenceEdgesCall(key) ==
    /\ key \in SequenceKeys
    /\ LET c == cacheSequenceEdges(Cur, key)
       IN  Install(Called(c.s, "cacheSequenceEdges", key, c.err))

CacheSpatialEdgesCall(key) ==
    /\ key \in SpatialKeys
    /\ LET c == cacheSpatialEdges(Cur, key)
       IN  Install(Called(c.s, "cacheSpatialEdges", key, c.err))

ResetSpatialEdgesCall ==
    /\ TRUE
    /\ Install(Called(resetSpatialEdges(Cur), "resetSpatialEdges", "", ""))

SetFilterCall(filter) ==
    /\ filter \in GraphFilters
    /\ Install(Called(setFilter(Cur, filter), "setFilter", "", ""))

NextGraph ==
    \/ DataLoaded
    \/ DataFailed
    \/ \E key \in InitializeKeys : InitializeCacheCall(key)
    \/ \E key \in SequenceKeys : CacheSequenceEdgesCall(key)
    \/ \E key \in SpatialKeys : CacheSpatialEdgesCall(key)
    \/ ResetSpatialEdgesCall
    \/ \E filter \in GraphFilters : SetFilterCall(filter)

SpecGraph == Init /\ [][NextGraph]_vars

(***************************************************************************)
(* Properties of the graph operations.                                     *)
(***************************************************************************)
\* C11: in every reachable state a node whose assets are cached is full.
C11_AssetsCachedImpliesFull ==
    \A k \in DOMAIN _nodes : _nodes[k].assetsCached => _nodes[k].full

\* a request went through the asset stage: a node has its assets cached
C11_Witness ==
    \E r \in Requests :
        /\ Occurs(EventsOf(r), "cacheAssets$")
        /\ requests[r].key \in DOMAIN _nodes
        /\ _nodes[requests[r].key].assetsCached

\* the predicate of the active filter throws on no node
FilterEvaluates ==
    \A k \in DOMAIN _nodes : createFilter(_filter, _nodes[k]) # "TypeError"

\* C12: cacheSpatialEdges(K) on a key that is spatially cached throws a
\* GraphMapillaryError and changes neither a node nor the set of spatially cached keys;
\* resetSpatialEdges() empties that set, and on a key that is not in it the call stores
\* the edges of a known node.
C12_CacheSpatialEdgesTwice ==
    [][/\ \A key \in SpatialKeys :
             CacheSpatialEdgesCall(key) =>
                 IF key \in _cachedSpatialEdges
                 THEN /\ graphCall'.err = "GraphMapillaryError"
                      /\ _nodes' = _nodes
                      /\ _cachedSpatialEdges' = _cachedSpatialEdges
                 ELSE /\ graphCall'.err # "GraphMapillaryError"
                      /\ (key \in DOMAIN _nodes /\ FilterEvaluates) =>
                            /\ graphCall'.err = ""
                            /\ key \in _cachedSpatialEdges'
                            /\ _nodes'[key].spatialEdges.cached
       /\ ResetSpatialEdgesCall => _cachedSpatialEdges' = {}]_vars

\* the second of two cacheSpatialEdges calls for a key has just thrown
C12_Witness ==
    /\ graphCall.op = "cacheSpatialEdges"
    /\ graphCall.err = "GraphMapillaryError"
    /\ graphCall.key \in _cachedSpatialEdges

\* C13: initializeCache(key) succeeds for a known key whose cache is not initialized
\* and makes hasInitializedCache(key) true; for a key whose cache is initialized it
\* throws a GraphMapillaryError and the node keeps the cache it has.
C13_InitializeCacheOnce ==
    /\ [][\A key \in InitializeKeys :
             InitializeCacheCall(key) =>
                 IF key \in _cachedNodes
                 THEN /\ graphCall'.err = "GraphMapillaryError"
                      /\ _nodes' = _nodes
                      /\ _cachedNodes' = _cachedNodes
                 ELSE IF key \in DOMAIN _nodes
                 THEN /\ graphCall'.err = ""
                      /\ hasInitializedCache(Cur, key)'
                      /\ _nodes'[key].cache = 1
                 ELSE graphCall'.err = "TypeError"]_vars
    /\ [](\A k \in DOMAIN _nodes : _nodes[k].cache = IF k \in _cachedNodes THEN 1 ELSE 0)

\* the second initializeCache call for a key has just thrown
C13_Witness ==
    /\ graphCall.op = "initializeCache"
    /\ graphCall.err = "GraphMapillaryError"
    /\ _nodes[graphCall.key].cache = 1

\* C14: a key is spatially cached exactly when its node holds a stored spatial edge
\* set, and a cacheSpatialEdges or cacheSequenceEdges call that throws stores nothing:
\* the nodes and the set of spatially cached keys are as before the call.
C14_NoPartialEdgeSets ==
    /\ [](\A k \in DOMAIN _nodes :
             /\ k \in _cachedSpatialEdges <=> _nodes[k].spatialEdges.cached
             /\ ~_nodes[k].spatialEdges.cached => _nodes[k].spatialEdges.edges = {}
             /\ ~_nodes[k].sequenceEdges.cached => _nodes[k].sequenceEdges.edges = {})
    /\ [][((\E key \in SpatialKeys : CacheSpatialEdgesCall(key))
              \/ (\E key \in SequenceKeys : CacheSequenceEdgesCall(key))) =>
             (graphCall'.err # "" =>
                 /\ _nodes' = _nodes
                 /\ _cachedSpatialEdges' = _cachedSpatialEdges)]_vars

\* cacheSpatialEdges threw in the middle, in the predicate of the filter, for a known
\* node that is left without spatial edges
C14_Witness ==
    /\ graphCall.op = "cacheSpatialEdges"
    /\ graphCall.err = "TypeError"
    /\ graphCall.key \in DOMAIN _nodes
    /\ ~_nodes[graphCall.key].spatialEdges.cached
    /\ graphCall.key \notin _cachedSpatialEdges

\* what resetSpatialEdges and setFilter must leave alone in a node
NodeRest(node) == [node EXCEPT !.spatialEdges = NoEdges]

\* C15: after resetSpatialEdges() no node has cached spatial edges and the set of
\* spatially cached keys is empty; sequence edges, metadata, the nodes with an
\* initialized cache and the active filter are as before.
C15_ResetSpatialEdgesFrame ==
    [][ResetSpatialEdgesCall =>
          /\ _cachedSpatialEdges' = {}
          /\ DOMAIN _nodes' = DOMAIN _nodes
          /\ \A k \in DOMAIN _nodes :
                /\ _nodes'[k].spatialEdges = NoEdges
                /\ NodeRest(_nodes'[k]) = NodeRest(_nodes[k])
          /\ UNCHANGED <<_cachedNodes, _filter, _sequences, _nodeIndex, _loaded>>]_vars

\* resetSpatialEdges() has just run on a graph that had spatial edges cached
C15_Witness ==
    /\ graphCall.op = "resetSpatialEdges"
    /\ graphCall.before
    /\ \E k \in DOMAIN _nodes : _nodes[k].sequenceEdges.cached

\* C16: setFilter(expr) replaces the active filter and leaves the nodes, their spatial
\* edges and cached flags, and the set of spatially cached keys as they are.
C16_SetFilterFrame ==
    [][\A filter \in GraphFilters :
          SetFilterCall(filter) =>
              /\ _filter' = filter
              /\ UNCHANGED <<_nodes, _cachedSpatialEdges, _cachedNodes>>]_vars

\* setFilter has just replaced the filter of a graph that keeps spatial edges computed
\* with the one before
C16_Witness ==
    /\ graphCall.op = "setFilter"
    /\ graphCall.before
    /\ \E k \in _cachedSpatialEdges :
          /\ _nodes[k].spatialEdges.cached
          /\ spatialFilter[k] # _filter

\* the position of the node k in the ordered keys of its sequence
PositionOf(k) ==
    LET keys == _sequences[_nodes[k].sequenceKey]
    IN  CHOOSE i \in 1..Len(keys) : keys[i] = k

\* the edges of a direction among the stored sequence edges of k
StoredSequenceEdges(k, direction) ==
    {e \in _nodes[k].sequenceEdges.edges : e.direction = direction}

\* the one edge from k to the key at position i of its sequence, none when absent
EdgeTo(k, i, direction, present) ==
    IF present
    THEN {[from |-> k, to |-> _sequences[_nodes[k].sequenceKey][i], direction |-> direction]}
    ELSE {}

\* C17 as stated: for a node at position i of its sequence cacheSequenceEdges stores
\* exactly one previous edge to the key at i-1 unless i is the first position, exactly
\* one next edge to the key at i+1 unless i is the last position, and nothing else.
C17_SequenceEdgesAsStated ==
    \A k \in DOMAIN _nodes :
        _nodes[k].sequenceEdges.cached =>
            LET i == PositionOf(k)
                last == Len(_sequences[_nodes[k].sequenceKey])
            IN  /\ StoredSequenceEdges(k, "Prev") = EdgeTo(k, i - 1, "Prev", i > 1)
                /\ StoredSequenceEdges(k, "Next") = EdgeTo(k, i + 1, "Next", i < last)
                /\ _nodes[k].sequenceEdges.edges =
                      StoredSequenceEdges(k, "Prev") \cup StoredSequenceEdges(k, "Next")

\* C17: the same, with an edge stored only when the neighbouring key is a node of the
\* graph.
C17_SequenceEdgesToKnownNodes ==
    \A k \in DOMAIN _nodes :
        _nodes[k].sequenceEdges.cached =>
            LET keys == _sequences[_nodes[k].sequenceKey]
                i == PositionOf(k)
                last == Len(keys)
            IN  /\ StoredSequenceEdges(k, "Prev") =
                      EdgeTo(k, i - 1, "Prev", i > 1 /\ keys[i - 1] \in DOMAIN _nodes)
                /\ StoredSequenceEdges(k, "Next") =
                      EdgeTo(k, i + 1, "Next", i < last /\ keys[i + 1] \in DOMAIN _nodes)
                /\ _nodes[k].sequenceEdges.edges =
                      StoredSequenceEdges(k, "Prev") \cup StoredSequenceEdges(k, "Next")

\* the first node of the sequence holds a next edge only, the one inside both edges,
\* and the node before the unknown key a previous edge only
C17_Witness ==
    /\ \A k \in {"A", "B", "C"} : k \in DOMAIN _nodes /\ _nodes[k].sequenceEdges.cached
    /\ _nodes["A"].sequenceEdges.edges = {[from |-> "A", to |-> "B", direction |-> "Next"]}
    /\ Cardinality(_nodes["B"].sequenceEdges.edges) = 2
    /\ _nodes["C"].sequenceEdges.edges = {[from |-> "C", to |-> "B", direction |-> "Prev"]}

\* C36: every sequence edge stored on a node leads from the node to a key of the node
\* map; a neighbour in the sequence that is no node of the graph gives no edge.
C36_SequenceEdgesLeadToNodes ==
    \A k \in DOMAIN _nodes :
        /\ \A edge \in _nodes[k].sequenceEdges.edges :
              edge.from = k /\ edge.to \in DOMAIN _nodes
        /\ _nodes[k].sequenceEdges.cached =>
              \A i \in 1..Len(_sequences[_nodes[k].sequenceKey]) :
                  LET to == _sequences[_nodes[k].sequenceKey][i]
                  IN  to \notin DOMAIN _nodes =>
                          \A edge \in _nodes[k].sequenceEdges.edges : edge.to # to

\* cacheSequenceEdges("C") was the latest call: C, followed in its sequence by the
\* unknown Z, holds its previous edge and no next edge
C36_Witness ==
    /\ graphCall.op = "cacheSequenceEdges" /\ graphCall.key = "C" /\ graphCall.err = ""
    /\ sequenceDatabase["s1"][PositionOf("C") + 1] \notin DOMAIN _nodes
    /\ {edge.direction : edge \in _nodes["C"].sequenceEdges.edges} = {"Prev"}

\* C18: cacheSequenceEdges(key) on a node whose sequence edges are cached fails and
\* leaves the stored edges as they are.
C18_CacheSequenceEdgesTwiceFails ==
    [][\A key \in SequenceKeys :
          (CacheSequenceEdgesCall(key) /\ key \in DOMAIN _nodes
              /\ _nodes[key].sequenceEdges.cached) =>
              /\ graphCall'.err # ""
              /\ _nodes' = _nodes]_vars

(***************************************************************************)
(* FilterCreator alone: the predicate of one comparison or membership      *)
(* expression applied to one object.                                       *)
(***************************************************************************)
FilterOperators == {"==", "!=", "<", "<=", ">", ">=", "in", "!in"}

\* the property paths a, a.b and a.b.c
PropertyPaths == {<<"a">>, <<"a", "b">>, <<"a", "b", "c">>}

FilterConstants ==
    {[t |-> "number", v |-> 1], [t |-> "string", v |-> "1"], [t |-> "boolean", v |-> TRUE]}

FilterInputs ==
    {<<operator, property, value>> :
        operator \in FilterOperators, property \in PropertyPaths, value \in FilterConstants}

\* the values a property holds
LeafValues ==
    FilterConstants \cup {[t |-> "number", v |-> 2], Null}

Object(properties) == [t |-> "object", v |-> properties]

EmptyObject == Object(<<>>)

\* the objects a predicate is applied to: {}, {a: v}, {a: {}}, {a: {b: v}}, {a: {b: {}}}
\* and {a: {b: {c: v}}}
NodeInputs ==
    {EmptyObject, Object([a |-> EmptyObject]), Object([a |-> Object([b |-> EmptyObject])])}
    \cup {Object([a |-> l]) : l \in LeafValues}
    \cup {Object([a |-> Object([b |-> l])]) : l \in LeafValues}
    \cup {Object([a |-> Object([b |-> Object([c |-> l])])]) : l \in LeafValues}

InitFilter ==
    \E filter \in FilterInputs, node \in NodeInputs :
        Holds([Constructed EXCEPT
                  !.filterRun = [filter |-> filter, node |-> node, result |-> "pending"]])

\* createFilter(filter)(node)
RunFilter ==
    /\ filterRun.result = "pending"
    /\ Install([Cur EXCEPT !.filterRun.result = _compile(filterRun.filter, filterRun.node)])

NextFilter == RunFilter

SpecFilter == InitFilter /\ [][NextFilter]_vars

\* every segment of the path is a property of the object reached so far
PathResolves(val, tree) ==
    \A i \in 1..Len(tree) :
        HasProperty(_compilePropertyReference(val, SubSeq(tree, 1, i - 1)), tree[i])

FilterRan == filterRun.result \notin {"idle", "pending"}

\* C19: for every comparison and membership operator the predicate returns false, and
\* raises no error, on a node that lacks a segment of the property path.
C19_MissingPropertyIsFalse ==
    (FilterRan /\ ~PathResolves(filterRun.node, filterRun.filter[2])) =>
        filterRun.result = "false"

\* C20: on a node that has the property, the predicates of <, <=, >, >= return false
\* when the type of the property value differs from the type of the constant and raise
\* no error; == and != get no such check: == is then false and != true.
C20_TypedComparison ==
    (FilterRan /\ PathResolves(filterRun.node, filterRun.filter[2])) =>
        LET operator == filterRun.filter[1]
            left == _compilePropertyReference(filterRun.node, filterRun.filter[2])
            differ == TypeOf(left) # TypeOf(filterRun.filter[3])
        IN  /\ operator \in {"<", "<=", ">", ">="} =>
                  /\ filterRun.result # "TypeError"
                  /\ differ => filterRun.result = "false"
            /\ (operator = "==" /\ differ) => filterRun.result = "false"
            /\ (operator = "!=" /\ differ) => filterRun.result = "true"

\* a numeric property was compared with a string constant by an ordering operator
C20_Witness ==
    /\ FilterRan
    /\ filterRun.filter[1] \in {"<", "<=", ">", ">="}
    /\ PathResolves(filterRun.node, filterRun.filter[2])
    /\ _compilePropertyReference(filterRun.node, filterRun.filter[2]).t = "number"
    /\ filterRun.filter[3].t = "string"
    /\ filterRun.result = "false"

(***************************************************************************)
(* FilterCreator on nodes: the predicates of membership, equality and      *)
(* "all" expressions over the properties of a node, and of the null,       *)
(* undefined and empty expressions.                                        *)
(***************************************************************************)
String(v) == [t |-> "string", v |-> v]

Boolean(v) == [t |-> "boolean", v |-> v]

\* an array literal among the operands of an expression
Array(values) == [t |-> "array", v |-> values]

\* the nodes a predicate is applied to: keyed A or x, of sequence s1, s2 or s3, full or
\* not
FilterNodes ==
    {NodeObject([NewFullNode([key |-> k, skey |-> sk, lat |-> 0, lon |-> 0])
                    EXCEPT !.full = f]) :
        k \in {"A", "x"}, sk \in {"s1", "s2", "s3"}, f \in BOOLEAN}

\* ["in","sequenceKey",["s1","s2"]] and ["in","sequenceKey","s2","s1"]
InSequenceNested == <<"in", <<"sequenceKey">>, Array(<<String("s1"), String("s2")>>)>>

InSequenceFlat == <<"in", <<"sequenceKey">>, String("s2"), String("s1")>>

\* ["==","full",true]
EqualsFull == <<"==", <<"full">>, Boolean(TRUE)>>

\* ["!in","key",["x"]] and ["!in","key","x"]
NotInKeyNested == <<"!in", <<"key">>, Array(<<String("x")>>)>>

NotInKeyFlat == <<"!in", <<"key">>, String("x")>>

\* ["all",["==","full",true],["!in","key",["x"]]] and the same with ["!in","key","x"]
AllFullNotKeyNested == <<"all", EqualsFull, NotInKeyNested>>

AllFullNotKeyFlat == <<"all", EqualsFull, NotInKeyFlat>>

\* the properties and constants of the ["==", p, v] expressions: mergeCC is a property
\* the nodes do not have
EqualityPaths == {<<"full">>, <<"key">>, <<"sequenceKey">>, <<"latLon", "lat">>, <<"mergeCC">>}

EqualityConstants ==
    {Boolean(TRUE), Boolean(FALSE), String("x"), String("s1"), String("0"),
     [t |-> "number", v |-> 0], [t |-> "number", v |-> 1]}

EqualityFilters == {<<"==", p, v>> : p \in EqualityPaths, v \in EqualityConstants}

\* the operands of the "all" expressions: the last two compile to true and to a
\* predicate that throws on every node
SubExpressions ==
    {EqualsFull, InSequenceFlat, NotInKeyFlat, <<"all", EqualsFull>>, NullExpression,
     ThrowingFilter}

\* ["all", e1, ..., en] for n up to MaxOperands
MaxOperands == 3

AllFilters ==
    {<<"all">> \o operands :
        operands \in UNION {[1..n -> SubExpressions] : n \in 0..MaxOperands}}

NodeFilters ==
    {NullExpression, UndefinedExpression, NoFilter, InSequenceNested, InSequenceFlat, NotInKeyNested,
     AllFullNotKeyNested, AllFullNotKeyFlat}
    \cup EqualityFilters \cup AllFilters

InitNodeFilter ==
    \E filter \in NodeFilters, node \in FilterNodes :
        Holds([Constructed EXCEPT
                  !.filterRun = [filter |-> filter, node |-> node, result |-> "pending"]])

SpecNodeFilter == InitNodeFilter /\ [][NextFilter]_vars

\* the predicate of the expression has been applied to the node
Ran(filter) == filterRun.filter = filter /\ FilterRan

SequenceKeyOf(node) == node.v.sequenceKey.v

KeyOf(node) == node.v.key.v

FullOf(node) == node.v.full.v

\* C21 as stated: the predicate of ["in","sequenceKey",["s1","s2"]] returns true for the
\* nodes whose sequenceKey is "s1" or "s2" and false for all others.
C21_InNestedListAsStated ==
    Ran(InSequenceNested) =>
        filterRun.result = Bool(SequenceKeyOf(filterRun.node) \in {"s1", "s2"})

\* C21: the predicate of ["in","sequenceKey","s2","s1"], the values given as operands of
\* their own, returns true for the nodes whose sequenceKey is "s1" or "s2" and false for
\* all others; the one of ["in","sequenceKey",["s1","s2"]] returns false for every node.
C21_InListOfOperands ==
    /\ Ran(InSequenceFlat) =>
          filterRun.result = Bool(SequenceKeyOf(filterRun.node) \in {"s1", "s2"})
    /\ Ran(InSequenceNested) => filterRun.result = "false"

\* the expression with the values as operands was applied to a node of sequence s2:
\* the second value of the sorted list matched
C21_Witness ==
    /\ Ran(InSequenceFlat)
    /\ SequenceKeyOf(filterRun.node) = "s2"
    /\ filterRun.result = "true"

\* C22 as stated: the predicate of ["all",["==","full",true],["!in","key",["x"]]]
\* returns true for exactly the nodes with full === true whose key is not "x".
C22_AllWithNestedListAsStated ==
    Ran(AllFullNotKeyNested) =>
        filterRun.result = Bool(FullOf(filterRun.node) /\ KeyOf(filterRun.node) # "x")

\* C22: the predicate of ["all",["==","full",true],["!in","key","x"]] returns true for
\* exactly the nodes with full === true whose key is not "x"; the one of
\* ["all",["==","full",true],["!in","key",["x"]]] returns true for exactly the nodes
\* with full === true, the one keyed "x" among them.
C22_AllFullNotKey ==
    /\ Ran(AllFullNotKeyFlat) =>
          filterRun.result = Bool(FullOf(filterRun.node) /\ KeyOf(filterRun.node) # "x")
    /\ Ran(AllFullNotKeyNested) => filterRun.result = Bool(FullOf(filterRun.node))
    /\ Ran(NotInKeyNested) => filterRun.result = "true"

\* the full node keyed "x" was excluded by the expression with "x" as an operand
C22_Witness ==
    /\ Ran(AllFullNotKeyFlat)
    /\ FullOf(filterRun.node)
    /\ KeyOf(filterRun.node) = "x"
    /\ filterRun.result = "false"

\* C23: the predicate of ["==", p, v] returns true for exactly the nodes whose property
\* p has the type and the value of v, and false for the others; for ["==","full",true]
\* these are the nodes with full === true.
C23_EqualsIsStrict ==
    /\ (FilterRan /\ filterRun.filter \in EqualityFilters) =>
          LET left == _compilePropertyReference(filterRun.node, filterRun.filter[2])
              v == filterRun.filter[3]
          IN  filterRun.result = Bool(left.t = v.t /\ left.v = v.v)
    /\ Ran(EqualsFull) => filterRun.result = Bool(FullOf(filterRun.node))

\* ["==","full",true] was applied to a full node and returned true
C23_Witness ==
    /\ Ran(EqualsFull)
    /\ FullOf(filterRun.node)
    /\ filterRun.result = "true"

\* C24: the predicate of a null, an undefined or an empty expression returns true for
\* every node, and the predicate of ["all", e1, ..., en] returns true for a node exactly
\* when the predicate of every ei returns true for it.
C24_EmptyIsTrueAllIsConjunction ==
    /\ (FilterRan /\ filterRun.filter \in {NullExpression, UndefinedExpression, NoFilter}) =>
          filterRun.result = "true"
    /\ (FilterRan /\ filterRun.filter \in AllFilters) =>
          LET operands == Tail(filterRun.filter)
          IN  filterRun.result = "true" <=>
                  \A i \in 1..Len(operands) : _compile(operands[i], filterRun.node) = "true"

\* an all expression of three operands returned false on a node that two of them
\* accept
C24_Witness ==
    /\ FilterRan
    /\ filterRun.filter \in AllFilters
    /\ Len(filterRun.filter) = 4
    /\ filterRun.result = "false"
    /\ _compile(filterRun.filter[2], filterRun.node) = "true"
    /\ _compile(filterRun.filter[3], filterRun.node) = "true"
    /\ _compile(filterRun.filter[4], filterRun.node) = "false"

(***************************************************************************)
(* Properties of the spatial index.                                        *)
(***************************************************************************)
\* the keys the graph is asked about
AskedKeys == DOMAIN metadataDatabase \cup SpatialKeys

\* C25: in every reachable state the spatial index holds one item per node of the node
\* map, at the position of that node, and nothing else; hasTiles, hasSpatialArea and
\* hasNode return true only when the node map and the index hold every node of the
\* database.
C25_IndexMatchesNodes ==
    /\ {item.node : item \in _nodeIndex} = DOMAIN _nodes
    /\ Cardinality(_nodeIndex) = Cardinality(DOMAIN _nodes)
    /\ \A item \in _nodeIndex :
          item.lat = _nodes[item.node].lat /\ item.lon = _nodes[item.node].lon
    /\ \A key \in AskedKeys :
          (hasTiles(Cur, key) \/ hasSpatialArea(Cur, key) \/ hasNode(Cur, key)) =>
              /\ _loaded
              /\ DOMAIN _nodes = DOMAIN metadataDatabase
              /\ {item.node : item \in _nodeIndex} = DOMAIN metadataDatabase

\* the database is loaded and the index was searched: spatial edges were computed for
\* a node that has a neighbour
C25_Witness ==
    /\ _loaded
    /\ Cardinality(_nodeIndex) = Cardinality(DOMAIN metadataDatabase)
    /\ graphCall.op = "cacheSpatialEdges"
    /\ graphCall.err = ""
    /\ _nodes[graphCall.key].spatialEdges.edges # {}

Distance(a, b) == IF a >= b THEN a - b ELSE b - a

\* key k is a node of the spatial index inside the box around node
InBoxOf(node, k) ==
    /\ k \in DOMAIN _nodes
    /\ \E item \in _nodeIndex : item.node = k
    /\ Distance(_nodes[k].lat, node.lat) <= boundingBoxThreshold
    /\ Distance(_nodes[k].lon, node.lon) <= boundingBoxThreshold

\* C32: every target of a spatial edge stored on a node by cacheSpatialEdges(key) is a
\* node of the spatial index that lies in the bounding box around the node and
\* satisfies the filter that was active when cacheSpatialEdges was called.
C32_SpatialEdgesFromFilteredBox ==
    \A key \in _cachedSpatialEdges :
        \A edge \in _nodes[key].spatialEdges.edges :
            /\ InBoxOf(_nodes[key], edge.to)
            /\ createFilter(spatialFilter[key], _nodes[edge.to]) = "true"

\* spatial edges of A were computed under the sequence filter: B is a target, M is in
\* the box and fails the filter, C passes the filter and is outside the box
C32_Witness ==
    /\ "A" \in _cachedSpatialEdges
    /\ spatialFilter["A"] = SequenceFilter
    /\ {edge.to : edge \in _nodes["A"].spatialEdges.edges} = {"B"}
    /\ InBoxOf(_nodes["A"], "M") /\ ~InBoxOf(_nodes["A"], "C")
    /\ createFilter(SequenceFilter, _nodes["C"]) = "true"
    /\ _filter = NoFilter

(***************************************************************************)
(* Properties of the fetches and of the bookkeeping lists.                 *)
(***************************************************************************)
\* a request for key has failed on its metadata fetch
FailedOnMetadata(key) ==
    \E r \in Requests :
        /\ requests[r].key = key
        /\ Occurs(EventsOf(r), "metadataError")
        /\ requests[r].callerError = "LoadError"

\* C26: the service issues no fetch of its own after a request failed on its metadata
\* fetch (only a cacheNode$ call issues one), and a new cacheNode$(K) call after such
\* a failure issues a new fetch.
C26_RetryOnlyOnNewRequest ==
    [][/\ (~ \E key \in RequestKeys : CacheNode(key)) => xhrInFlight' <= xhrInFlight
       /\ \A key \in RequestKeys :
             (CacheNode(key) /\ FailedOnMetadata(key)) =>
                 /\ xhrInFlight' = xhrInFlight + 1
                 /\ requests'[Len(requests')].caller = "subscribed"]_vars

\* the pipelines of request r have all finished: the metadata stage delivered the graph
\* or failed or was cancelled, and the edge pipelines ran to their end with it
Finished(r) == requests[r].subject # "open"

\* C27: once the pipelines of a request have finished, none of _firstGraphSubjects$,
\* _initializeCacheSubscriptions, _sequenceSubscriptions and _spatialSubscriptions
\* holds an entry of the request, whether its metadata stage completed inside the
\* subscribe call or later.
C27_ListsForgetFinishedRequests ==
    \A r \in Requests :
        Finished(r) =>
            /\ r \notin Range(_firstGraphSubjects)
            /\ r \notin Range(_initializeCacheSubscriptions)
            /\ r \notin Range(_sequenceSubscriptions)
            /\ r \notin Range(_spatialSubscriptions)

\* the events the step adds to the logs of the first n requests for key
RECURSIVE NewEvents(_, _)
NewEvents(key, n) ==
    IF n = 0 THEN <<>>
    ELSE LET old == IF n \in Requests THEN Len(requests[n].events) ELSE 0
         IN  NewEvents(key, n - 1) \o
                 (IF requests'[n].key = key
                  THEN SubSeq(requests'[n].events, old + 1, Len(requests'[n].events))
                  ELSE <<>>)

\* how often e occurs in the log q
Count(q, e) == Len(SelectSeq(q, LAMBDA x : x = e))

\* C28: GraphService calls initializeCache only for a key whose cache is not
\* initialized, and cacheSequenceEdges and cacheSpatialEdges only for a node whose
\* edge set is not cached: a step makes such a call only when the key is not cached
\* before it, and at most one when the key is cached after it; no pipeline and no
\* caller ever receives a GraphMapillaryError.
C28_NoCallOnCached ==
    /\ [][requests' # requests =>
             \A key \in RequestKeys :
                LET new == NewEvents(key, Len(requests'))
                    known == key \in DOMAIN _nodes
                    knownAfter == key \in DOMAIN _nodes'
                IN  /\ Count(new, "initializeCache") >= 1 => key \notin _cachedNodes
                    /\ key \in _cachedNodes' => Count(new, "initializeCache") <= 1
                    /\ Count(new, "cacheSequenceEdges") >= 1 =>
                          ~(known /\ _nodes[key].sequenceEdges.cached)
                    /\ (knownAfter /\ _nodes'[key].sequenceEdges.cached) =>
                          Count(new, "cacheSequenceEdges") <= 1
                    /\ Count(new, "cacheSpatialEdges") >= 1 =>
                          /\ key \notin _cachedSpatialEdges
                          /\ ~(known /\ _nodes[key].spatialEdges.cached)
                    /\ (knownAfter /\ _nodes'[key].spatialEdges.cached) =>
                          Count(new, "cacheSpatialEdges") <= 1]_vars
    /\ [](\A r \in Requests :
             /\ requests[r].error # "GraphMapillaryError"
             /\ requests[r].callerError # "GraphMapillaryError"
             /\ ~Occurs(EventsOf(r), "GraphMapillaryError"))

\* two requests for one key waited for the database: the first initialized the cache
\* and cached both edge sets, the second found them and made no call
C28_Witness ==
    \E r1, r2 \in Requests :
        /\ r1 < r2
        /\ requests[r1].key = requests[r2].key
        /\ Occurs(EventsOf(r1), "cacheFull$") /\ Occurs(EventsOf(r2), "cacheFull$")
        /\ Occurs(EventsOf(r1), "initializeCache")
        /\ Occurs(EventsOf(r1), "cacheSequenceEdges")
        /\ Occurs(EventsOf(r1), "cacheSpatialEdges")
        /\ Occurs(EventsOf(r2), "firstGraph")
        /\ GraphCalls(EventsOf(r2)) = <<>>

(***************************************************************************)
(* cacheSequence$ subscribed before and after the database load.           *)
(***************************************************************************)
CacheSequence(sequenceKey) ==
    /\ Len(sequenceRequests) < MaxSequenceRequests
    /\ Install(cacheSequenceCall(Cur, sequenceKey))

NextSequence ==
    \/ \E sequenceKey \in SequenceRequestKeys : CacheSequence(sequenceKey)
    \/ DataLoaded
    \/ DataFailed

SpecSequence == Init /\ [][NextSequence]_vars

NoDuplicates(q) == \A i, j \in 1..Len(q) : q[i] = q[j] => i = j

\* the subscriptions of request r are open while its first graph subject is: the
\* pipelines end with the delivery, the failure or the abort of the first graph
OpenSubscriptions(q) == \A i \in 1..Len(q) : q[i] \in Requests /\ requests[q[i]].subject = "open"

\* reset$ was called (its keepKeys are never empty) and no cacheNode$ call was made since
AfterReset == resetKeepKeys # {} /\ resetUpTo = Len(requests)

\* setFilter$ was called and no cacheNode$ call was made since
AfterSetFilter == filterHandles # {} /\ filterUpTo = Len(requests)

\* C34: _initializeCacheSubscriptions, _sequenceSubscriptions and
\* _spatialSubscriptions hold only subscriptions that are not closed, each once; when
\* reset$ returns (and until the next cacheNode$ call) the four bookkeeping lists are
\* empty, and when setFilter$ returns (and until the next cacheNode$ call)
\* _spatialSubscriptions is empty.
C34_ListsHoldOpenSubscriptions ==
    /\ OpenSubscriptions(_initializeCacheSubscriptions)
    /\ OpenSubscriptions(_sequenceSubscriptions)
    /\ OpenSubscriptions(_spatialSubscriptions)
    /\ NoDuplicates(_initializeCacheSubscriptions)
    /\ NoDuplicates(_sequenceSubscriptions)
    /\ NoDuplicates(_spatialSubscriptions)
    /\ AfterReset =>
           /\ _firstGraphSubjects = <<>>
           /\ _initializeCacheSubscriptions = <<>>
           /\ _sequenceSubscriptions = <<>>
           /\ _spatialSubscriptions = <<>>
    /\ AfterSetFilter => _spatialSubscriptions = <<>>

\* reset$ was called with two requests waiting for the database, the second one made
\* after a setFilter$ call: the lists held both, the spatial list only the second
C34_Witness ==
    /\ Len(requests) = 2
    /\ resetUpTo = 2
    /\ filterUpTo = 1
    /\ \A r \in Requests : requests[r].callerError = "Aborted"
    /\ _firstGraphSubjects = <<>>
    /\ _initializeCacheSubscriptions = <<>>
    /\ _sequenceSubscriptions = <<>>
    /\ _spatialSubscriptions = <<>>

\* C35: on a loaded graph cacheNode$(key) for a key that is not in the node database
\* fails on the returned observable, and leaves the initialized caches, the spatially
\* cached keys and every node as they are.
C35_UnknownKeyFails ==
    [][(/\ _loaded
        /\ Len(requests') = Len(requests) + 1
        /\ requests'[Len(requests')].key \notin DOMAIN metadataDatabase) =>
           /\ requests'[Len(requests')].caller = "failed"
           /\ requests'[Len(requests')].callerError = "TypeError"
           /\ UNCHANGED <<_cachedNodes, _cachedSpatialEdges, _nodes>>]_vars

\* the cache of A is initialized and its edges are cached; a later request for X failed
C35_Witness ==
    \E r1, r2 \in Requests :
        /\ r1 < r2
        /\ requests[r1].key = "A" /\ requests[r1].caller = "emitted"
        /\ Occurs(EventsOf(r1), "of")
        /\ requests[r2].key = "X" /\ requests[r2].callerError = "TypeError"
        /\ _cachedNodes = {"A"} /\ _cachedSpatialEdges = {"A"}

(***************************************************************************)
(* The SpatialDataComponent activated and deactivated while the state      *)
(* service and the graph service emit.                                     *)
(***************************************************************************)
InstallComponent(c) ==
    /\ component' = c
    /\ UNCHANGED <<dataState, dataConnected, xhrInFlight, _loaded, _nodes, _sequences,
                   _nodeIndex, _cachedNodes, _cachedSpatialEdges, _filter, cachingAssets,
                   assetFetches, _firstGraphSubjects, _initializeCacheSubscriptions,
                   _sequenceSubscriptions, _spatialSubscriptions, requests, filterHandles,
                   resetUpTo, resetKeepKeys, filterUpTo, spatialFilter, graphCall,
                   filterRun, spatial, sequenceRequests, fly>>

Activate ==
    /\ ~component.activated
    /\ component.activations < MaxActivations
    /\ InstallComponent(_activate(component))

Deactivate ==
    /\ component.activated
    /\ InstallComponent(_deactivate(component))

\* stateService.reference$ emits: scene.reset runs in every open reset subscription
ReferenceEmits ==
    /\ component._resetSubscription = "open" \/ component.orphans > 0
    /\ Len(component.callbacks) < MaxCallbacks
    /\ InstallComponent(Callback(component, "reset"))

\* graphService.graph$ emits: scene.updateCameras runs
GraphEmits ==
    /\ component._graphChangeSubscription = "open"
    /\ Len(component.callbacks) < MaxCallbacks
    /\ InstallComponent(Callback(component, "updateCameras"))

\* stateService.currentState$ emits: the render hash goes to glRenderer.render$
StateEmits ==
    /\ component._renderSubscription = "open"
    /\ Len(component.callbacks) < MaxCallbacks
    /\ InstallComponent(Callback(component, "render"))

NextComponent ==
    \/ Activate
    \/ Deactivate
    \/ ReferenceEmits
    \/ GraphEmits
    \/ StateEmits

SpecComponent == Init /\ [][NextComponent]_vars

\* C37: after the component was activated and deactivated, _deactivate has thrown
\* nothing, the render, graph change and reset subscriptions of the activation are
\* unsubscribed, and no callback of the component has run while it was deactivated.
C37_DeactivateUnsubscribesAll ==
    (component.activations > 0 /\ ~component.activated) =>
        /\ component.thrown = ""
        /\ component._renderSubscription = "closed"
        /\ component._graphChangeSubscription = "closed"
        /\ component._resetSubscription = "closed"
        /\ component.orphans = 0
        /\ \A i \in 1..Len(component.callbacks) : component.callbacks[i].activated

(***************************************************************************)
(* The FlyHandler enabled and disabled while the navigator changes state   *)
(* and the mouse service emits.                                            *)
(***************************************************************************)
InstallFly(f) ==
    /\ fly' = f
    /\ UNCHANGED <<dataState, dataConnected, xhrInFlight, _loaded, _nodes, _sequences,
                   _nodeIndex, _cachedNodes, _cachedSpatialEdges, _filter, cachingAssets,
                   assetFetches, _firstGraphSubjects, _initializeCacheSubscriptions,
                   _sequenceSubscriptions, _spatialSubscriptions, requests, filterHandles,
                   resetUpTo, resetKeepKeys, filterUpTo, spatialFilter, graphCall,
                   filterRun, spatial, sequenceRequests, component>>

Enable(replay, camera) ==
    /\ ~fly.enabled
    /\ InstallFly(_enable(fly, replay, camera))

Disable ==
    /\ fly.enabled
    /\ InstallFly(_disable(fly))

StateEmitted(state) ==
    /\ state \in NavigatorStates
    /\ InstallFly(stateNext(fly, state))

CameraEmitted ==
    /\ fly.enabled
    /\ InstallFly([fly EXCEPT !.camera = TRUE])

Mouse(event) ==
    /\ Len(fly.inputs) < MaxInputs
    /\ InstallFly(mouseNext(fly, event))

NextFly ==
    \/ \E replay, camera \in BOOLEAN : Enable(replay, camera)
    \/ Disable
    \/ \E state \in NavigatorStates : StateEmitted(state)
    \/ CameraEmitted
    \/ \E event \in MouseEvents : Mouse(event)

SpecFly == Init /\ [][NextFly]_vars

\* C38: a call on the state service is computed only from events that arrived while
\* the handler was enabled and the latest navigator state was Flying, and is made only
\* in such a state.
C38_InputAppliedOnlyWhileFlying ==
    /\ [](\A i \in 1..Len(fly.applied) :
             \A j \in {fly.applied[i].first, fly.applied[i].second} :
                 fly.inputs[j].enabled /\ fly.inputs[j].state = "Flying")
    /\ [][fly'.applied # fly.applied => fly.enabled /\ fly.state = "Flying"]_vars

\* the navigator left Flying and came back with the handler enabled throughout: the
\* events before and after were applied, the event in between was not
C38_Witness ==
    /\ Len(fly.inputs) = 3
    /\ \A j \in 1..3 : fly.inputs[j].enabled /\ fly.inputs[j].kind = "mouseWheel"
    /\ fly.inputs[1].state = "Flying"
    /\ fly.inputs[2].state = "Traversing"
    /\ fly.inputs[3].state = "Flying"
    /\ fly.applied = <<[call |-> "dolly", first |-> 1, second |-> 1],
                       [call |-> "dolly", first |-> 3, second |-> 3]>>

DragKinds == {"mouseDragStart", "mouseDrag", "mouseDragEnd"}

\* C39: every fly movement is computed from two drag start or drag events that follow
\* each other in the drag events of the mouse service, so that no drag end lies
\* between them.
C39_PairsWithinOneDrag ==
    \A i \in 1..Len(fly.applied) :
        LET a == fly.applied[i]
        IN  a.call # "dolly" =>
                /\ a.first < a.second
                /\ fly.inputs[a.first].kind \in {"mouseDragStart", "mouseDrag"}
                /\ fly.inputs[a.second].kind \in {"mouseDragStart", "mouseDrag"}
                /\ \A j \in (a.first + 1)..(a.second - 1) :
                       fly.inputs[j].kind \notin DragKinds

\* a drag, its end and the start of the next drag arrived while flying: no movement
\* was computed across the end
C39_Witness ==
    /\ Len(fly.inputs) = 3
    /\ fly.inputs[1].kind = "mouseDrag"
    /\ fly.inputs[2].kind = "mouseDragEnd"
    /\ fly.inputs[3].kind = "mouseDragStart"
    /\ \A j \in 1..3 : fly.inputs[j].enabled /\ fly.inputs[j].state = "Flying"
    /\ fly.camera /\ fly.flying = "true" /\ fly.previous = 3
    /\ fly.applied = <<>>

(***************************************************************************)
(* Properties of cacheSequence$                                            *)
(***************************************************************************)
\* C33: the observable of cacheSequence$(sequenceKey) emits exactly one item, the
\* sequence stored under sequenceKey; graph.cacheSequence$ is called only when the
\* sequence is absent or being cached; a cached sequence is emitted without a fetch;
\* a fetch error reaches the caller.
C33_CacheSequenceEmitsSequence ==
    \A r \in 1..Len(sequenceRequests) :
        LET q == sequenceRequests[r]
        IN  /\ q.state = "complete" =>
                 /\ Len(q.items) = 1
                 /\ q.key \in DOMAIN _sequences
                 /\ q.items[1] = [key |-> q.key, keys |-> _sequences[q.key]]
            /\ q.state # "complete" => q.items = <<>>
            /\ q.calls # <<>> => ~q.cached
            /\ q.cached => q.state = "complete" /\ q.calls = <<>> /\ q.fetches = 0
            /\ dataState # "pending" => q.state # "waiting"
            /\ dataState = "failed" => q.state = "failed" /\ q.error = "LoadError"

(***************************************************************************)
(* Properties of the sequence pipeline                                     *)
(***************************************************************************)
\* C31: cacheSequenceEdges(key) is called by the sequence pipeline only in a state
\* where hasNodeSequence(key) is true, and only after the metadata stage of the
\* same request has completed.
C31_SequenceEdgesOnlyWithSequence ==
    /\ [][requests' # requests =>
             \A key \in RequestKeys :
                Count(NewEvents(key, Len(requests')), "cacheSequenceEdges") >= 1 =>
                    /\ key \in DOMAIN _nodes'
                    /\ _nodes'[key].sequenceKey \in DOMAIN _sequences']_vars
    /\ [](\A r \in Requests :
             Occurs(EventsOf(r), "cacheSequenceEdges") =>
                 Before(EventsOf(r), "firstGraph", "cacheSequenceEdges"))

(***************************************************************************)
(* The spatial pipeline of cacheNode$ on a graph that loads its tiles, its *)
(* spatial area and the sequence of the node by fetches of their own. All  *)
(* requests are for one key. The graph g is the field spatial:             *)
(*   tile      tile -> "none", "caching" (fetch in flight) or "cached"     *)
(*   area      the spatial area of the node, likewise                      *)
(*   sequence  the sequence of the node, likewise                          *)
(*   edges     spatialEdges.cached of the node                             *)
(*   requests  per request: stage "waiting" (for the first graph),         *)
(*             "expand", "area", "sequence", "done" or "failed"; the tiles *)
(*             its expansion is subscribed to; whether cacheSpatialEdges   *)
(*             was called and with all tiles cached; its log               *)
(***************************************************************************)
GraphHasTiles(g) == \A t \in Tiles : g.tile[t] = "cached"

GraphIsCachingTiles(g) == \E t \in Tiles : g.tile[t] = "caching"

\* cacheTiles$(key): one observable per tile that is not cached; a tile that is not
\* being fetched is fetched
GraphCacheTiles(g) == [g EXCEPT !.tile = [t \in Tiles |-> IF @[t] = "none" THEN "caching" ELSE @[t]]]

GraphHasSpatialArea(g) == g.area = "cached"

GraphCacheSpatialArea(g) == [g EXCEPT !.area = "caching"]

GraphHasNodeSequence(g) == g.sequence = "cached"

GraphCacheNodeSequence(g) == [g EXCEPT !.sequence = "caching"]

GraphCacheSpatialEdges(g) == [g EXCEPT !.edges = TRUE]

NewSpatialRequest ==
    [stage |-> "waiting", subscribing |-> TRUE, waiting |-> {}, called |-> FALSE,
     complete |-> FALSE, events |-> <<>>]

SpatialLog(s, r, e) == [s EXCEPT !.spatial.requests[r].events = Append(@, e)]

\* the finally of spatialSubscription: inside the subscribe call the variable is unset
SpatialFinally(s, r) ==
    IF s.spatial.requests[r].subscribing THEN s
    ELSE [s EXCEPT !._spatialSubscriptions = _removeFromArray(r, @)]

\* an error reaches the subscriber of spatialSubscription
SpatialFailed(s, r, e) ==
    SpatialFinally([SpatialLog(SpatialLog(s, r, "spatialError"), r, e)
                       EXCEPT !.spatial.requests[r].stage = "failed"], r)

\* the do, then the completion of the pipeline
SpatialDo(s, r) ==
    LET s1 == IF s.spatial.edges THEN s
              ELSE [SpatialLog(s, r, "cacheSpatialEdges") EXCEPT
                       !.spatial = GraphCacheSpatialEdges(@),
                       !.spatial.requests[r].called = TRUE,
                       !.spatial.requests[r].complete = GraphHasTiles(s.spatial)]
    IN  SpatialFinally([s1 EXCEPT !.spatial.requests[r].stage = "done"], r)

\* the second last() emits: mergeMap(hasNodeSequence ? of(graph) : cacheNodeSequence$)
SpatialSequenceStage(s, r) ==
    IF GraphHasNodeSequence(s.spatial) THEN SpatialDo(SpatialLog(s, r, "sequenceDone"), r)
    ELSE [SpatialLog(s, r, "cacheNodeSequence$") EXCEPT
             !.spatial = GraphCacheNodeSequence(@),
             !.spatial.requests[r].stage = "sequence"]

\* the first last() emits: mergeMap(hasSpatialArea ? of(graph) : cacheSpatialArea$)
SpatialAreaStage(s, r) ==
    IF GraphHasSpatialArea(s.spatial)
    THEN SpatialSequenceStage(SpatialLog(s, r, "areaDone"), r)
    ELSE [SpatialLog(s, r, "cacheSpatialArea$") EXCEPT
             !.spatial = GraphCacheSpatialArea(@),
             !.spatial.requests[r].stage = "area"]

\* the project function of expand, applied to a graph the expansion emits
ExpandProject(s, r) ==
    IF GraphHasTiles(s.spatial) THEN SpatialLog(s, r, "hasTiles")
    ELSE [SpatialLog(s, r, "cacheTiles$") EXCEPT
             !.spatial = GraphCacheTiles(@),
             !.spatial.requests[r].waiting =
                 @ \cup {t \in Tiles : s.spatial.tile[t] # "cached"}]

\* expand completes when its source has completed and no inner observable is left;
\* last() then emits the latest graph
ExpandCheck(s, r) ==
    IF s.spatial.requests[r].waiting # {} THEN s
    ELSE SpatialAreaStage(SpatialLog(s, r, "expandDone"), r)

\* firstGraph$ emits the graph and completes
SpatialFirstGraph(s, r) ==
    ExpandCheck(ExpandProject([s EXCEPT !.spatial.requests[r].stage = "expand"], r), r)

\* a tile observable emits and completes: the graph goes on into the expansion unless
\* tiles are still being fetched
TileNext(s, r, t) ==
    LET s1 == [s EXCEPT !.spatial.requests[r].waiting = @ \ {t}]
        s2 == IF GraphIsCachingTiles(s1.spatial) THEN s1 ELSE ExpandProject(s1, r)
    IN  ExpandCheck(s2, r)

\* a tile observable fails and the failure goes through the expansion
TileErrorPropagated(s, r, t) ==
    SpatialFailed([s EXCEPT !.spatial.requests[r].waiting = @ \ {t}], r, "tileError")

\* a tile observable fails: the catch logs the error and ends the branch
TileError(s, r, t) ==
    ExpandCheck(SpatialLog([s EXCEPT !.spatial.requests[r].waiting = @ \ {t}], r, "tileError"), r)

\* the requests in the given stage, in call order
InStage(s, stage) ==
    SelectSeq([i \in 1..Len(s.spatial.requests) |-> i],
              LAMBDA r : s.spatial.requests[r].stage = stage)

\* the requests whose expansion is subscribed to the tile, in call order
WaitingFor(s, t) ==
    SelectSeq([i \in 1..Len(s.spatial.requests) |-> i],
              LAMBDA r : s.spatial.requests[r].stage = "expand"
                         /\ t \in s.spatial.requests[r].waiting)

RECURSIVE TileNextAll(_, _, _)
TileNextAll(s, subscribers, t) ==
    IF subscribers = <<>> THEN s
    ELSE TileNextAll(TileNext(s, Head(subscribers), t), Tail(subscribers), t)

RECURSIVE TileErrorAll(_, _, _)
TileErrorAll(s, subscribers, t) ==
    IF subscribers = <<>> THEN s
    ELSE TileErrorAll(TileError(s, Head(subscribers), t), Tail(subscribers), t)

tileLoaded(s, t) ==
    LET s1 == [s EXCEPT !.spatial.tile[t] = "cached"]
    IN  TileNextAll(s1, WaitingFor(s1, t), t)

tileFailed(s, t) ==
    LET s1 == [s EXCEPT !.spatial.tile[t] = "none"]
    IN  TileErrorAll(s1, WaitingFor(s1, t), t)

RECURSIVE AreaNextAll(_, _)
AreaNextAll(s, subscribers) ==
    IF subscribers = <<>> THEN s
    ELSE LET r == Head(subscribers)
         IN  AreaNextAll(SpatialSequenceStage(SpatialLog(s, r, "areaDone"), r),
                         Tail(subscribers))

RECURSIVE AreaErrorAll(_, _)
\* the catch of the area stage ends in an empty observable: last() fails on it
AreaErrorAll(s, subscribers) ==
    IF subscribers = <<>> THEN s
    ELSE LET r == Head(subscribers)
         IN  AreaErrorAll(SpatialFailed(SpatialLog(s, r, "areaError"), r, "EmptyError"),
                          Tail(subscribers))

areaLoaded(s) ==
    LET s1 == [s EXCEPT !.spatial.area = "cached"]
    IN  AreaNextAll(s1, InStage(s1, "area"))

areaFailed(s) ==
    LET s1 == [s EXCEPT !.spatial.area = "none"]
    IN  AreaErrorAll(s1, InStage(s1, "area"))

RECURSIVE SequenceNextAll(_, _)
SequenceNextAll(s, subscribers) ==
    IF subscribers = <<>> THEN s
    ELSE LET r == Head(subscribers)
         IN  SequenceNextAll(SpatialDo(SpatialLog(s, r, "sequenceDone"), r), Tail(subscribers))

RECURSIVE SequenceErrorAll(_, _)
SequenceErrorAll(s, subscribers) ==
    IF subscribers = <<>> THEN s
    ELSE SequenceErrorAll(SpatialFailed(s, Head(subscribers), "FetchError"), Tail(subscribers))

sequenceLoaded(s) ==
    LET s1 == [s EXCEPT !.spatial.sequence = "cached"]
    IN  SequenceNextAll(s1, InStage(s1, "sequence"))

sequenceFailed(s) ==
    LET s1 == [s EXCEPT !.spatial.sequence = "none"]
    IN  SequenceErrorAll(s1, InStage(s1, "sequence"))

\* the pipelines on the graph that loads tiles touch nothing else
InstallSpatial(s) ==
    /\ spatial' = s.spatial
    /\ _spatialSubscriptions' = s._spatialSubscriptions
    /\ UNCHANGED <<dataState, dataConnected, xhrInFlight, _loaded, _nodes, _sequences,
                   _nodeIndex, _cachedNodes, _cachedSpatialEdges, _filter, cachingAssets,
                   assetFetches, _firstGraphSubjects, _initializeCacheSubscriptions,
                   _sequenceSubscriptions, requests, filterHandles, resetUpTo,
                   resetKeepKeys, filterUpTo, spatialFilter, graphCall, filterRun,
                   sequenceRequests, component, fly>>

\* cacheNode$(key) up to the push of spatialSubscription: with sync the first graph is
\* there and the pipeline runs inside the subscribe call
cacheNodeSpatial(s, sync) ==
    LET r == Len(s.spatial.requests) + 1
        s1 == [s EXCEPT !.spatial.requests = Append(@, NewSpatialRequest)]
        s2 == IF sync THEN SpatialFirstGraph(s1, r) ELSE s1
        s3 == [s2 EXCEPT !.spatial.requests[r].subscribing = FALSE]
    IN  IF s3.spatial.requests[r].stage \in {"done", "failed"} THEN s3
        ELSE [s3 EXCEPT !._spatialSubscriptions = Append(@, r)]

CacheNodeSpatial(sync) ==
    /\ Len(spatial.requests) < MaxSpatialRequests
    /\ InstallSpatial(cacheNodeSpatial(Cur, sync))

FirstGraphArrives(r) ==
    /\ r \in 1..Len(spatial.requests)
    /\ spatial.requests[r].stage = "waiting"
    /\ InstallSpatial(SpatialFirstGraph(Cur, r))

FirstGraphFails(r) ==
    /\ r \in 1..Len(spatial.requests)
    /\ spatial.requests[r].stage = "waiting"
    /\ InstallSpatial(SpatialFailed(Cur, r, "LoadError"))

TileLoaded(t) ==
    /\ spatial.tile[t] = "caching"
    /\ InstallSpatial(tileLoaded(Cur, t))

TileFailed(t) ==
    /\ spatial.tile[t] = "caching"
    /\ InstallSpatial(tileFailed(Cur, t))

AreaLoaded ==
    /\ spatial.area = "caching"
    /\ InstallSpatial(areaLoaded(Cur))

AreaFailed ==
    /\ spatial.area = "caching"
    /\ InstallSpatial(areaFailed(Cur))

SequenceLoaded ==
    /\ spatial.sequence = "caching"
    /\ InstallSpatial(sequenceLoaded(Cur))

SequenceFailed ==
    /\ spatial.sequence = "caching"
    /\ InstallSpatial(sequenceFailed(Cur))

SpatialRequests == 1..MaxSpatialRequests

NextSpatial ==
    \/ \E sync \in BOOLEAN : CacheNodeSpatial(sync)
    \/ \E r \in SpatialRequests : FirstGraphArrives(r)
    \/ \E r \in SpatialRequests : FirstGraphFails(r)
    \/ \E t \in Tiles : TileLoaded(t)
    \/ \E t \in Tiles : TileFailed(t)
    \/ AreaLoaded
    \/ AreaFailed
    \/ SequenceLoaded
    \/ SequenceFailed

SpecSpatial == Init /\ [][NextSpatial]_vars

SpecSpatialFair ==
    /\ SpecSpatial
    /\ \A t \in Tiles : WF_vars(TileLoaded(t) \/ TileFailed(t))
    /\ WF_vars(AreaLoaded \/ AreaFailed)
    /\ WF_vars(SequenceLoaded \/ SequenceFailed)

(***************************************************************************)
(* Properties of the spatial pipeline                                      *)
(***************************************************************************)
Precedes(q, a, b) ==
    \A j \in 1..Len(q) : q[j] = b => \E i \in 1..(j - 1) : q[i] = a

\* C29: cacheSpatialEdges is called only after hasTiles has returned true, then the
\* spatial area stage and then the node sequence stage have completed, and never
\* while tiles of the key are missing, whatever tile fetch failed.
C29_EdgesOnlyAfterTiles ==
    \A r \in 1..Len(spatial.requests) :
        spatial.requests[r].called =>
            /\ spatial.requests[r].complete
            /\ Precedes(spatial.requests[r].events, "hasTiles", "expandDone")
            /\ Precedes(spatial.requests[r].events, "expandDone", "areaDone")
            /\ Precedes(spatial.requests[r].events, "areaDone", "sequenceDone")
            /\ Precedes(spatial.requests[r].events, "sequenceDone", "cacheSpatialEdges")

SpatialTerminated(r) ==
    /\ spatial.requests[r].stage \in {"done", "failed"}
    /\ r \notin Range(_spatialSubscriptions)

\* C30: when every tile, area and sequence fetch completes or fails, every spatial
\* pipeline that has started ends closed and out of _spatialSubscriptions; tiles are
\* requested only on a graph for which hasTiles is false; a failing tile fetch ends
\* the branches subscribed to it and fails no pipeline.
C30_SpatialPipelineTerminates ==
    /\ \A r \in SpatialRequests :
           (r <= Len(spatial.requests) /\ spatial.requests[r].stage # "waiting")
               ~> (r <= Len(spatial.requests) /\ SpatialTerminated(r))
    /\ [][/\ \A r \in 1..Len(spatial.requests) :
                Count(spatial.requests'[r].events, "cacheTiles$")
                    > Count(spatial.requests[r].events, "cacheTiles$")
                => ~GraphHasTiles(spatial')
          /\ \A t \in Tiles :
                (spatial.tile[t] = "caching" /\ spatial'.tile[t] = "none") =>
                    \A r \in 1..Len(spatial.requests) :
                        /\ t \notin spatial'.requests[r].waiting
                        /\ spatial'.requests[r].stage = "failed"
                               => spatial.requests[r].stage = "failed"]_vars

C30_Witness ==
    \E r \in 1..Len(spatial.requests) :
        /\ Count(spatial.requests[r].events, "tileError") > 0
        /\ Count(spatial.requests[r].events, "cacheTiles$") > 1
        /\ SpatialTerminated(r)

====
